---- MODULE Spec2Model ----
(***************************************************************************)
(* A model of crpy, a client of the container registry HTTP API: the       *)
(* registry session (crpy/utils.py, RegistryInfo), the token negotiation   *)
(* (crpy/auth.py) and the blob cache, as a state machine.  Every await of   *)
(* the source is a step boundary: an action is the code that runs between  *)
(* two awaits, and the registry's answer is its input.                     *)
(***************************************************************************)
EXTENDS Integers, Sequences, FiniteSets, TLC

VARIABLES
  token,          \* RegistryInfo.token of the one session
  tokenCache,     \* the lru_cache of get_token: key -> token
  tokenLog,       \* every request sent to the token endpoint, oldest first, and
                  \* its state: "sent", then "ok" or "failed"
  credentials,    \* the stored base64 credential of the registry, or None
  manifestCache,  \* the alru_cache of get_manifest: fat -> Response
  configCache,    \* the alru_cache of get_config: architecture -> Response
  layerCache,     \* the blob cache directory: digest -> bytes
  frame,          \* per task: the running call, its position and its outcome
  calls,          \* number of calls started so far
  cwd             \* the current working directory of the process

vars == <<token, tokenCache, tokenLog, credentials, manifestCache, configCache,
          layerCache, frame, calls, cwd>>

---------------------------------------------------------------------------
(* Bounds of the model *)

\* calls started in one behaviour
MaxCalls == 2

\* the depth of docker_pull.pull calls at which the interpreter raises
\* RecursionError (sys.getrecursionlimit(), scaled down)
RecursionLimit == 3

---------------------------------------------------------------------------
(* Strings.  A Python str or bytes value is a TLA+ string; s[i] is         *)
(* SubSeq(s, i, i).                                                        *)

None == "None"

CharAt(s, i) == SubSeq(s, i, i)

InChars(c, chars) == \E i \in 1..Len(chars) : CharAt(chars, i) = c

IndexIn(chars, c) == CHOOSE i \in 1..Len(chars) : CharAt(chars, i) = c

StartsWith(s, p) == Len(s) >= Len(p) /\ SubSeq(s, 1, Len(p)) = p

\* str.lstrip(chars): drops leading characters that are in the set chars
RECURSIVE lstrip(_, _)
lstrip(s, chars) ==
  IF Len(s) > 0 /\ InChars(CharAt(s, 1), chars)
  THEN lstrip(SubSeq(s, 2, Len(s)), chars)
  ELSE s

\* str.rstrip(chars)
RECURSIVE rstrip(_, _)
rstrip(s, chars) ==
  IF Len(s) > 0 /\ InChars(CharAt(s, Len(s)), chars)
  THEN rstrip(SubSeq(s, 1, Len(s) - 1), chars)
  ELSE s

\* str.replace(old, new, count): leftmost non-overlapping occurrences;
\* count = -1 replaces all of them
RECURSIVE replace(_, _, _, _)
replace(s, old, new, count) ==
  IF count = 0 \/ Len(s) < Len(old) THEN s
  ELSE IF SubSeq(s, 1, Len(old)) = old
       THEN new \o replace(SubSeq(s, Len(old) + 1, Len(s)), old, new, count - 1)
       ELSE CharAt(s, 1) \o replace(SubSeq(s, 2, Len(s)), old, new, count)

\* sub occurs in s at position k
OccursAt(s, sub, k) == k + Len(sub) - 1 <= Len(s) /\ SubSeq(s, k, k + Len(sub) - 1) = sub

\* str.find(sub) + 1: the position of the leftmost occurrence, 0 when none
find(s, sub) ==
  IF \E k \in 1..Len(s) : OccursAt(s, sub, k)
  THEN CHOOSE k \in 1..Len(s) :
         OccursAt(s, sub, k) /\ \A j \in 1..(k - 1) : ~OccursAt(s, sub, j)
  ELSE 0

\* sub in s
contains(s, sub) == find(s, sub) > 0

\* str.split(sep): the segments, in order
RECURSIVE split(_, _)
split(s, sep) ==
  IF ~contains(s, sep) THEN <<s>>
  ELSE <<SubSeq(s, 1, find(s, sep) - 1)>>
         \o split(SubSeq(s, find(s, sep) + Len(sep), Len(s)), sep)

\* str.split(sep, 1): at most one split, at the leftmost separator
split1(s, sep) ==
  IF ~contains(s, sep) THEN <<s>>
  ELSE <<SubSeq(s, 1, find(s, sep) - 1), SubSeq(s, find(s, sep) + Len(sep), Len(s))>>

\* str.count(sub): the number of non-overlapping occurrences
count(s, sub) == Len(split(s, sub)) - 1

\* str.strip(chars)
strip(s, chars) == rstrip(lstrip(s, chars), chars)

Digits == "0123456789"
Upper == "ABCDEFGHIJKLMNOPQRSTUVWXYZ"
Lower == "abcdefghijklmnopqrstuvwxyz"
HexDigits == "0123456789abcdef"

\* str.lower()
RECURSIVE str_lower(_)
str_lower(s) ==
  IF s = "" THEN ""
  ELSE (IF InChars(CharAt(s, 1), Upper) THEN CharAt(Lower, IndexIn(Upper, CharAt(s, 1)))
        ELSE CharAt(s, 1)) \o str_lower(SubSeq(s, 2, Len(s)))

\* the code point of a character (digits, ":" and letters)
Ord(c) ==
  IF InChars(c, Digits) THEN 47 + IndexIn(Digits, c)
  ELSE IF c = ":" THEN 58
  ELSE IF InChars(c, Upper) THEN 64 + IndexIn(Upper, c)
  ELSE 96 + IndexIn(Lower, c)

\* str.encode("utf-8") of an ASCII string: its bytes
RECURSIVE encode(_)
encode(s) ==
  IF Len(s) = 0 THEN <<>>
  ELSE <<Ord(CharAt(s, 1))>> \o encode(SubSeq(s, 2, Len(s)))

B64Alphabet == "ABCDEFGHIJKLMNOPQRSTUVWXYZabcdefghijklmnopqrstuvwxyz0123456789+/"

B64Char(n) == CharAt(B64Alphabet, n + 1)

\* base64.b64encode(b).decode("ascii"), b a sequence of bytes
RECURSIVE b64encode(_)
b64encode(b) ==
  IF Len(b) = 0 THEN ""
  ELSE IF Len(b) = 1
  THEN B64Char(b[1] \div 4) \o B64Char((b[1] % 4) * 16) \o "=="
  ELSE IF Len(b) = 2
  THEN LET n == b[1] * 256 + b[2]
       IN B64Char(n \div 1024) \o B64Char((n \div 16) % 64)
            \o B64Char((n % 16) * 4) \o "="
  ELSE LET n == b[1] * 65536 + b[2] * 256 + b[3]
       IN B64Char(n \div 262144) \o B64Char((n \div 4096) % 64)
            \o B64Char((n \div 64) % 64) \o B64Char(n % 64)
            \o b64encode(SubSeq(b, 4, Len(b)))

\* hashlib.sha256(content).hexdigest(), abstracted as a collision-free
\* digest: the hexadecimal writing of the content's bytes
RECURSIVE hexdigest(_)
hexdigest(b) ==
  IF Len(b) = 0 THEN ""
  ELSE CharAt(HexDigits, (b[1] \div 16) + 1) \o CharAt(HexDigits, (b[1] % 16) + 1)
         \o hexdigest(Tail(b))

compute_sha256(content) == "sha256:" \o hexdigest(encode(content))

---------------------------------------------------------------------------
(* The session and the values on the wire *)

Tasks == {1, 2}

\* Python truthiness of an optional string
Truthy(s) == s # None /\ s # ""

\* the reference of the session (RegistryInfo.registry, repository, tag, https)
registry == "r.io"
repository == "lib/x"
tag == "v1"
https == TRUE

manifest_url ==
  LET method == IF https THEN "https" ELSE "http"
  IN method \o "://" \o registry \o "/v2/" \o repository \o "/manifests/" \o tag

blobs_url ==
  LET method == IF https THEN "https" ELSE "http"
  IN method \o "://" \o registry \o "/v2/" \o repository \o "/blobs"

\* a RegistryInfo: the fields from_url fills
RegistryInfo(r, n, g, s) == [registry |-> r, repository |-> n, tag |-> g, https |-> s]

NoInfo == RegistryInfo("", "", "", FALSE)

\* RegistryInfo.manifest_url() and blobs_url() of a reference
manifest_url_of(ri) ==
  LET method == IF ri.https THEN "https" ELSE "http"
  IN method \o "://" \o ri.registry \o "/v2/" \o ri.repository \o "/manifests/" \o ri.tag

blobs_url_of(ri) ==
  LET method == IF ri.https THEN "https" ELSE "http"
  IN method \o "://" \o ri.registry \o "/v2/" \o ri.repository \o "/blobs"

\* RegistryInfo.from_url (lines 154-173): the reference, or the exception of
\* an unpacking that does not get its two values
from_url(text) ==
  LET has_scheme == contains(text, "://")
      parts == split(text, "://")
      scheme == IF has_scheme THEN parts[1] ELSE "https"
      url == IF has_scheme THEN parts[2] ELSE text
      possibly_hub_image ==
        \/ count(url, "/") = 0
        \/ /\ count(url, "/") = 1
           /\ ~contains(split(url, "/")[1], ".")
           /\ ~contains(split(url, "/")[1], ":")
      hub == ~has_scheme /\ possibly_hub_image
      registry0 == IF hub THEN "index.docker.io" ELSE split1(url, "/")[1]
      repository0 == IF hub THEN (IF ~contains(url, "/") THEN "library/" \o url ELSE url)
                     ELSE split1(url, "/")[2]
      repository_raw == IF ~hub /\ contains(registry0, "docker.io") /\ ~contains(repository0, "/")
                        THEN "library/" \o repository0
                        ELSE repository0
      name_tag == SubSeq(split(repository_raw, ":") \o <<"latest">>, 1, 2)
  IN IF has_scheme /\ Len(parts) # 2 THEN [error |-> "ValueError", ri |-> NoInfo]
     ELSE IF ~hub /\ Len(split1(url, "/")) # 2 THEN [error |-> "ValueError", ri |-> NoInfo]
     ELSE [error |-> None,
           ri |-> RegistryInfo(registry0, strip(name_tag[1], "/"), name_tag[2],
                               scheme = "https")]

\* RegistryInfo._headers: a mapping is a set of <<name, value>> pairs
_headers(tok) ==
  IF Truthy(tok) THEN {<<"Authorization", "Bearer " \o tok>>} ELSE {}

HasHeader(headers, name) == \E h \in headers : h[1] = name

Header(headers, name) == (CHOOSE h \in headers : h[1] = name)[2]

_schema1_mimetype == "application/vnd.docker.distribution.manifest.v1+json"
_schema2_mimetype == "application/vnd.docker.distribution.manifest.v2+json"
_schema2_list_mimetype == "application/vnd.docker.distribution.manifest.list.v2+json"
_ociv1_manifest_mimetype == "application/vnd.oci.image.manifest.v1+json"
_ociv1_index_mimetype == "application/vnd.oci.image.index.v1+json"

\* the Accept header of get_manifest
AcceptHeader(fat) ==
  IF fat
  THEN {<<"Accept", _schema1_mimetype \o ", " \o _schema2_mimetype \o ", "
                      \o _schema2_list_mimetype \o ", " \o _ociv1_manifest_mimetype
                      \o ", " \o _ociv1_index_mimetype>>}
  ELSE {<<"Accept", _schema1_mimetype \o ", " \o _schema2_mimetype>>}

Request(method, url, headers, data) ==
  [method |-> method, url |-> url, headers |-> headers, data |-> data]

\* the request of utils.py line 206 and line 210
ManifestRequest(fat, tok) == Request("get", manifest_url, AcceptHeader(fat) \cup _headers(tok), "")

\* the bearer token a request carries, None when it carries none
BearerOf(req) ==
  IF HasHeader(req.headers, "Authorization")
  THEN SubSeq(Header(req.headers, "Authorization"), 8,
              Len(Header(req.headers, "Authorization")))
  ELSE None

\* tokens the token endpoint hands out
Tokens == {"t1", "t2"}

\* blob contents that exist in the world
Contents == {"a", "ab"}

Digests == {compute_sha256(c) : c \in Contents}

\* the challenges a registry sends with a 401
PullChallenge ==
  "Bearer realm=\"https://a.io/token\",service=\"r.io\",scope=\"repository:lib/x:pull\""
BasicChallenge == "Basic realm=\"r.io\""

ChallengeHeaders ==
  {{}, {<<"WWW-Authenticate", PullChallenge>>}, {<<"WWW-Authenticate", BasicChallenge>>}}

\* utils.Response; status 0 stands for a request that ended without a
\* response (connection error)
Response(status, data, headers) == [status |-> status, data |-> data, headers |-> headers]

NoResponse == Response(0, "", {})

\* bodies of manifest responses and the JSON they hold
ManifestBody == "manifest"
ErrorBody == "errors"

\* an entry of a manifest list: its platform (a mapping) and the digest of the
\* manifest it names
Entry(os, architecture, variant, digest) ==
  [platform |-> {<<"os", os>>, <<"architecture", architecture>>}
                  \cup (IF variant = None THEN {} ELSE {<<"variant", variant>>}),
   digest |-> digest]

NoEntry == [platform |-> {}, digest |-> ""]

\* bodies of manifest-list responses
ListBodies == {"list1", "list2", "list3"}

\* Response.json()["manifests"] of a manifest-list body
ManifestsOf(data) ==
  CASE data = "list1" -> <<Entry("linux", "amd64", None, "sha256:01"),
                           Entry("linux", "arm64", "v8", "sha256:02")>>
    [] data = "list2" -> <<Entry("linux", "arm64", "v8", "sha256:02"),
                           Entry("linux", "arm64", None, "sha256:03"),
                           Entry("linux", "arm64", None, "sha256:04"),
                           Entry("linux", "arm", "64", "sha256:05")>>
    [] OTHER -> <<>>

\* bodies of image manifests: ManifestBody and these
ImageBodies == {ManifestBody, "manifest2", "manifest3"}

\* Response.json() of a manifest body that holds a config entry
HasConfig(data) == data \in ImageBodies

ConfigDigestOf(data) == compute_sha256("a")

\* Response.json() of a body that holds a layers entry
HasLayers(data) == data \in ImageBodies

\* [m["digest"] for m in manifest["layers"]]
LayersOf(data) ==
  CASE data = ManifestBody -> <<compute_sha256("ab"), compute_sha256("a")>>
    [] data = "manifest2" -> <<compute_sha256("ab"), compute_sha256("ab")>>
    [] OTHER -> <<>>

ManifestResponses ==
  {Response(200, ManifestBody, {}), Response(404, ErrorBody, {}),
   Response(500, ErrorBody, {}), NoResponse}
  \cup {Response(401, ErrorBody, h) : h \in ChallengeHeaders}

BlobResponses ==
  {Response(s, c, {}) : s \in {200, 401, 404}, c \in Contents} \cup {NoResponse}

\* answers of the token endpoint: a status and the fields of the JSON body
TokenResponses ==
  {[status |-> 200, json |-> j] :
     j \in {{<<"token", "t1">>}, {<<"token", "t2">>}, {<<"access_token", "t1">>},
            {<<"token", "t1">>, <<"access_token", "t2">>}, {}}}
  \cup {[status |-> 401, json |-> {}]}

---------------------------------------------------------------------------
(* crpy/auth.py *)

\* the request headers get_token builds (auth.py lines 15-21)
get_token_headers(username, password, b64_token) ==
  IF Truthy(username) /\ Truthy(password)
  THEN LET u == ""
           p == ""
           tok == b64encode(encode(u \o ":" \o p))
       IN {<<"Authorization", "Basic " \o tok>>}
  ELSE IF Truthy(b64_token)
  THEN {<<"Authorization", "Basic " \o b64_token>>}
  ELSE {}

\* a get_token that looks for access_token first
get_token_result_access_first(resp) ==
  IF resp.status # 200 THEN [ok |-> FALSE, token |-> None, error |-> "HTTPError"]
  ELSE IF HasHeader(resp.json, "access_token")
  THEN [ok |-> TRUE, token |-> Header(resp.json, "access_token"), error |-> None]
  ELSE IF HasHeader(resp.json, "token")
  THEN [ok |-> TRUE, token |-> Header(resp.json, "token"), error |-> None]
  ELSE [ok |-> FALSE, token |-> None, error |-> "ValueError"]

\* get_token after the response arrived (auth.py lines 23-30): the token, or
\* the error raised
get_token_result(resp) ==
  IF resp.status # 200 THEN [ok |-> FALSE, token |-> None, error |-> "HTTPError"]
  ELSE IF HasHeader(resp.json, "token")
  THEN [ok |-> TRUE, token |-> Header(resp.json, "token"), error |-> None]
  ELSE IF HasHeader(resp.json, "access_token")
  THEN [ok |-> TRUE, token |-> Header(resp.json, "access_token"), error |-> None]
  ELSE [ok |-> FALSE, token |-> None, error |-> "ValueError"]

\* the lru_cache key of a get_token call made with keywords
TokenKey(url, username, password, b64_token) == <<url, username, password, b64_token>>

get_url_from_auth_header(h) ==
  rstrip(replace(replace(replace(lstrip(h, "Bearer realm=\""), "\",", "?", 1),
                         "\",", "&", -1), "=\"", "=", -1), "\"")

---------------------------------------------------------------------------
(* Calls.  frame[t] holds the call task t is running: its arguments, the   *)
(* await it is suspended at (pc), the requests it has issued to the        *)
(* registry (reqs), the number of times it called RegistryInfo.auth (negs) *)
(* and, once it has ended (pc = "done"), how it ended.                     *)

NoFile == [given |-> FALSE, buf |-> "", pos |-> 0]

\* a file that is given as an archive: what it is ("tar", "other" for a file
\* tarfile cannot read, "none" while no file is there), the regular members
\* of the tar (name and bytes) and the parsed content of its manifest.json
NoArchive == [kind |-> "none", members |-> {}, manifest_json |-> <<>>]

\* the description of a blob in a manifest that is pushed
NoBlob == [size |-> 0, digest |-> "", mediaType |-> ""]

\* build_manifest (lines 372-380)
build_manifest(config, layers) ==
  [schemaVersion |-> 2, mediaType |-> _schema2_mimetype, config |-> config, layers |-> layers]

NoManifest == [schemaVersion |-> 0, mediaType |-> "", config |-> NoBlob, layers |-> <<>>]

\* no answer of the token endpoint (yet)
NoTokenResponse == [status |-> 0, json |-> {}]

IdleFrame ==
  [op |-> "idle", pc |-> "idle", fat |-> FALSE, layer |-> "", file_obj |-> NoFile,
   use_cache |-> FALSE, content |-> "", force |-> FALSE, username |-> None,
   password |-> None, key |-> <<>>, reqs |-> <<>>, resps |-> <<>>, negs |-> 0,
   outcome |-> "none", ret_kind |-> "none", ret |-> NoResponse, ret_data |-> "",
   existing |-> FALSE, digest |-> "", size |-> 0, error |-> None, remaining |-> "",
   token0 |-> None, log0 |-> 0, log_idx |-> 0, tok_resp |-> NoTokenResponse,
   arch |-> None, owner |-> 0, manifest |-> NoResponse, ret_entry |-> NoEntry,
   config |-> NoResponse, todo |-> <<>>, layer_path_l |-> <<>>, temp_dir |-> {},
   scratch |-> "none", url |-> "", info |-> NoInfo, urls |-> <<>>, file_obj0 |-> NoFile,
   image_digest |-> None, headers_req |-> {}, depth |-> 0, chdir |-> None,
   archive |-> NoArchive, archive0 |-> NoArchive, manifest0 |-> NoResponse,
   config_manifest |-> NoBlob, layers_manifest |-> <<>>, image_manifest |-> NoManifest]

\* a call begins: token0 and log0 remember the session token and the length
\* of tokenLog at that moment
NewFrame(op) == [IdleFrame EXCEPT !.op = op, !.token0 = token, !.log0 = Len(tokenLog)]

\* tempfile.TemporaryDirectory.__exit__ (pull line 299, push line 402): the
\* directory of the `with` block the call is in, if it is in one, is removed
\* when the block is left
Cleanup(scratch) == IF scratch = "exists" THEN "removed" ELSE scratch

\* the directory the process is started in, and the temporary directory of
\* a call; a directory is there or has been removed
StartDir == [dir |-> "start", exists |-> TRUE]

TempDir(scratch) == [dir |-> "temp_dir", exists |-> scratch = "exists"]

Return(f, kind, resp, data) ==
  [f EXCEPT !.pc = "done", !.outcome = "returned", !.ret_kind = kind, !.ret = resp,
            !.ret_data = data, !.scratch = Cleanup(@)]

\* an exception that leaves the directory of the call behind
Raise_leak(f, err) == [f EXCEPT !.pc = "done", !.outcome = "raised", !.error = err]

Raise(f, err) ==
  [f EXCEPT !.pc = "done", !.outcome = "raised", !.error = err, !.scratch = Cleanup(@)]

\* the working directory after a step: a call that has run os.chdir in this
\* step (pull line 328) has moved the process into its temporary directory
Chdir ==
  IF \E t \in Tasks : frame'[t] # frame[t] /\ frame'[t].chdir # None
  THEN LET t == CHOOSE t \in Tasks : frame'[t] # frame[t] /\ frame'[t].chdir # None
       IN TempDir(frame'[t].scratch)
  ELSE cwd

\* the frames once the call of task t has raised (frame g): the callers that
\* await the get_manifest t was running (alru_cache) receive its exception
Ended(t, g) ==
  [u \in Tasks |->
     IF u = t THEN g
     ELSE IF frame[u].pc = "gm_join" /\ frame[u].owner = t THEN Raise(frame[u], g.error)
     ELSE frame[u]]

\* the request is issued and the call suspends at pc
Send(f, req, pc) == [f EXCEPT !.reqs = Append(@, req), !.pc = pc]

\* the response r arrived
Got(f, r) == [f EXCEPT !.resps = Append(@, r)]

CanCall(t) == frame[t].pc \in {"idle", "done"} /\ calls < MaxCalls

\* a get_token whose request does not hold the thread
Blocked_never == FALSE

\* requests.get in get_token is a synchronous call: while a task waits in it
\* the thread, and so the event loop with every other task, stands still
Blocked == \E t \in Tasks : frame[t].pc = "tok_wait"

\* crpy.storage.get_credentials(registry)
get_credentials == credentials

\* crpy.storage.save_credentials(registry, username, password): the stored
\* credential afterwards
save_credentials(username, password) == b64encode(encode(username \o ":" \o password))

\* the calls that run get_manifest: get_manifest itself and the coroutines
\* that await it
ManifestOps == {"get_manifest", "get_manifest_from_architecture", "get_config", "pull"}

\* what the caller of auth does with the token (the code after `await self.auth`)
AfterAuth(f, tok) ==
  CASE f.op \in ManifestOps ->
         Send(f, ManifestRequest(f.fat, tok), "gm_wait2")
    [] f.op \in {"push_layer", "push"} ->
         Send(f, Request("get", blobs_url \o "/" \o compute_sha256(f.content),
                         _headers(tok), ""), "head_wait2")
    [] OTHER -> Return(f, "token", NoResponse, tok)

\* RegistryInfo.auth from line 125 on, called with the challenge www_auth:
\* the memoized get_token returns at once on a hit and sends the token
\* request on a miss
Auth(t, f, www_auth) ==
  IF ~StartsWith(www_auth, "Bearer realm=\"")
  THEN /\ frame' = Ended(t, Raise([f EXCEPT !.negs = @ + 1], "AssertionError"))
       /\ UNCHANGED <<token, tokenLog>>
  ELSE LET b64_token == get_credentials
           url == get_url_from_auth_header(www_auth)
           key == TokenKey(url, f.username, f.password, b64_token)
           g == [f EXCEPT !.negs = @ + 1, !.key = key]
       IN IF key \in DOMAIN tokenCache
          THEN /\ token' = tokenCache[key]
               /\ frame' = [frame EXCEPT ![t] = AfterAuth(g, tokenCache[key])]
               /\ UNCHANGED tokenLog
          ELSE /\ tokenLog' = Append(tokenLog,
                    [url |-> url, key |-> key, state |-> "sent",
                     headers |-> get_token_headers(f.username, f.password, b64_token)])
               /\ frame' = [frame EXCEPT ![t] =
                    [g EXCEPT !.pc = "tok_wait", !.log_idx = Len(tokenLog) + 1]]
               /\ UNCHANGED token

\* the token endpoint answers: get_token lines 23-30, then auth lines 130-134
\* and the caller's code up to its next await
TokenResponse(t, resp) ==
  /\ frame[t].pc = "tok_wait"
  /\ tokenLog' = [tokenLog EXCEPT ![frame[t].log_idx].state =
                      IF get_token_result(resp).ok THEN "ok" ELSE "failed"]
  /\ LET f == [frame[t] EXCEPT !.tok_resp = resp]
         r == get_token_result(resp)
     IN IF r.ok
        THEN /\ tokenCache' = tokenCache @@ (f.key :> r.token)
             /\ token' = r.token
             /\ credentials' = IF f.op = "login"
                               THEN save_credentials(f.username, f.password)
                               ELSE credentials
             /\ frame' = [frame EXCEPT ![t] = AfterAuth(f, r.token)]
        ELSE /\ frame' = Ended(t, Raise(f, r.error))
             /\ UNCHANGED <<tokenCache, token, credentials>>
  /\ UNCHANGED <<manifestCache, configCache, layerCache, calls>>
  /\ cwd' = Chdir

---------------------------------------------------------------------------
(* RegistryInfo.get_manifest and get_config *)

\* a platform_from_dict that leaves the variant out
platform_from_dict_novariant(platform) ==
  LET get(k) == IF HasHeader(platform, k) THEN Header(platform, k) ELSE None
  IN get("os") \o "/" \o get("architecture")

\* platform_from_dict (lines 80-84); dict.get yields None for a missing key
platform_from_dict(platform) ==
  LET get(k) == IF HasHeader(platform, k) THEN Header(platform, k) ELSE None
      base_str == get("os") \o "/" \o get("architecture")
  IN IF HasHeader(platform, "variant") THEN base_str \o "/" \o get("variant")
     ELSE base_str

\* the architectures a caller asks for: strings and members of Platform
Architectures == {"linux/amd64", "linux/arm64", "windows/amd64", "Platform.MAC"}

\* lines 217-218: a member of Platform stands for its value
ArchitectureValue(architecture) ==
  CASE architecture = "Platform.LINUX" -> "linux/amd64"
    [] architecture = "Platform.MAC" -> "linux/arm64/v8"
    [] OTHER -> architecture

\* lines 221-225: the index of the first entry whose platform string is the
\* architecture, 0 when there is none
MatchingEntry(manifests, architecture) ==
  LET available_architectures ==
        [i \in 1..Len(manifests) |-> platform_from_dict(manifests[i].platform)]
      hits == {i \in 1..Len(manifests) : available_architectures[i] = architecture}
  IN IF hits = {} THEN 0 ELSE CHOOSE i \in hits : \A j \in hits : i <= j

\* get_manifest_from_architecture once get_manifest has returned r (lines
\* 220-228).  Its own alru_cache holds what is computed here from the
\* memoized response, so a hit returns the same value.
ResolveArchitecture(f, r) ==
  IF f.arch = None THEN Return(f, "dict", r, r.data)
  ELSE IF r.data \notin ListBodies THEN Raise(f, "KeyError")
  ELSE LET manifests == ManifestsOf(r.data)
           idx == MatchingEntry(manifests, ArchitectureValue(f.arch))
       IN IF idx = 0 THEN Raise(f, "ValueError")
          ELSE Return([f EXCEPT !.ret_entry = manifests[idx]], "dict", r, r.data)

BlobRequest(layer, tok) == Request("get", blobs_url \o "/" \o layer, _headers(tok), "")

\* a file is written into a directory (a mapping from path to bytes)
WriteFile(dir, path, data) == {p \in dir : p[1] # path} \cup {<<path, data>>}

\* str(self)
str == registry \o "/" \o repository \o ":" \o tag

\* pull line 304
config_filename(web_manifest) == split(ConfigDigestOf(web_manifest), ":")[2] \o ".json"

\* a pull that lists the newest layer first
LayerDone_prepend(f, layer_bytes) ==
  LET layer == Head(f.todo)
      layer_folder == split(layer, ":")[Len(split(layer, ":"))]
      path == layer_folder \o "/layer.tar"
  IN [f EXCEPT !.temp_dir = WriteFile(@, path, layer_bytes),
               !.layer_path_l = <<path>> \o @, !.todo = Tail(@)]

\* pull lines 310-316 for the layer at the head of the list, its bytes at hand
LayerDone(f, layer_bytes) ==
  LET layer == Head(f.todo)
      layer_folder == split(layer, ":")[Len(split(layer, ":"))]
      path == layer_folder \o "/layer.tar"
  IN [f EXCEPT !.temp_dir = WriteFile(@, path, layer_bytes),
               !.layer_path_l = Append(@, path), !.todo = Tail(@)]

\* pull lines 319-330: manifest.json is written and the directory is packed;
\* tar_out.add(".") names every member "./<path>"
PackArchive(f) ==
  LET manifest == <<[Config |-> config_filename(f.manifest.data), RepoTags |-> <<str>>,
                     Layers |-> f.layer_path_l]>>
      dir == WriteFile(f.temp_dir, "manifest.json", "manifest.json")
  IN Return([f EXCEPT !.temp_dir = dir, !.chdir = "temp_dir",
                      !.archive = [kind |-> "tar",
                                   members |-> {<<"./" \o p[1], p[2]>> : p \in dir},
                                   manifest_json |-> manifest]],
            "none", NoResponse, "")

\* the loop of pull (lines 309-317) from the layer at the head of the list up
\* to the next await: a layer the cache holds is copied at once
\* (pull_layer lines 260-263), the first layer it does not hold is requested
RECURSIVE PullLayers(_, _)
PullLayers(f, cache) ==
  IF f.todo = <<>> THEN PackArchive(f)
  ELSE LET layer == Head(f.todo)
       IN IF layer \in DOMAIN cache THEN PullLayers(LayerDone(f, cache[layer]), cache)
          ELSE Send([f EXCEPT !.layer = layer], BlobRequest(layer, token), "blob_wait")

\* the code of the caller after `await self.get_config(...)` returned c: pull
\* lines 304-309 with get_layers (lines 253-254)
AfterConfig(f, c, cache) ==
  IF f.op = "get_config" THEN Return(f, "response", c, c.data)
  ELSE LET g == [f EXCEPT !.config = c,
                          !.temp_dir = WriteFile(@, config_filename(f.manifest.data), c.data)]
       IN IF ~HasLayers(f.manifest.data) THEN Raise(g, "KeyError")
          ELSE PullLayers([g EXCEPT !.todo = LayersOf(f.manifest.data)], cache)

\* pull(architecture) with an architecture: get_config (line 241) looks for
\* the config of the list entry, which has none
PullArchitecture(f, r) ==
  IF ResolveArchitecture(f, r).outcome = "raised" THEN ResolveArchitecture(f, r)
  ELSE Raise(f, "KeyError")

\* the code of the caller after `await self.get_manifest(...)` returned r,
\* up to its next await: get_manifest_from_architecture lines 221-228,
\* get_config lines 241-242, pull lines 301-302
AfterManifest(f, r) ==
  LET g == [f EXCEPT !.manifest = r]
  IN CASE f.op = "get_manifest" -> Return(g, "response", r, r.data)
       [] f.op = "get_manifest_from_architecture" -> ResolveArchitecture(g, r)
       [] f.op = "pull" /\ f.arch # None -> PullArchitecture(g, r)
       [] f.op = "pull" /\ f.arch = None /\ None \in DOMAIN configCache ->
            AfterConfig(g, configCache[None], layerCache)
       [] OTHER ->
            IF HasConfig(r.data)
            THEN Send(g, Request("get", blobs_url \o "/" \o ConfigDigestOf(r.data),
                                 _headers(token), ""), "config_wait")
            ELSE Raise(g, "KeyError")

\* get_manifest ends by returning r: the alru_cache memoizes the result and
\* hands it to every caller that awaited this call
ManifestReturn(t, f, r) ==
  /\ manifestCache' = IF f.fat \in DOMAIN manifestCache THEN manifestCache
                      ELSE manifestCache @@ (f.fat :> r)
  /\ frame' = [u \in Tasks |->
       IF u = t THEN AfterManifest(f, r)
       ELSE IF frame[u].pc = "gm_join" /\ frame[u].owner = t
       THEN AfterManifest(frame[u], r)
       ELSE frame[u]]

\* the places of a call inside get_manifest
ManifestPcs == {"gm_wait1", "tok_wait", "gm_wait2"}

\* a get_manifest with this argument is running
ManifestInFlight(fat) ==
  \E u \in Tasks :
    frame[u].op \in ManifestOps /\ frame[u].pc \in ManifestPcs /\ frame[u].fat = fat

\* a caller that does not look for a running get_manifest
EnterGetManifest_alone(f, fat) ==
  LET g == [f EXCEPT !.fat = fat]
  IN IF fat \in DOMAIN manifestCache THEN AfterManifest(g, manifestCache[fat])
     ELSE Send(g, ManifestRequest(fat, token), "gm_wait1")

\* `await self.get_manifest(fat)` up to the await (alru_cache, line 175): a
\* memoized response is returned at once, a running call with the same
\* argument is awaited, else the request of line 206 is issued
EnterGetManifest(f, fat) ==
  LET g == [f EXCEPT !.fat = fat]
  IN IF fat \in DOMAIN manifestCache THEN AfterManifest(g, manifestCache[fat])
     ELSE IF ManifestInFlight(fat)
     THEN [g EXCEPT !.pc = "gm_join",
                    !.owner = CHOOSE u \in Tasks :
                                /\ frame[u].op \in ManifestOps
                                /\ frame[u].pc \in ManifestPcs /\ frame[u].fat = fat]
     ELSE Send(g, ManifestRequest(fat, token), "gm_wait1")

\* await ri.get_manifest(fat)
CallGetManifest(t, fat) ==
  /\ CanCall(t) /\ ~Blocked
  /\ calls' = calls + 1
  /\ frame' = [frame EXCEPT ![t] = EnterGetManifest(NewFrame("get_manifest"), fat)]
  /\ UNCHANGED <<token, tokenCache, tokenLog, credentials, manifestCache, configCache,
                 layerCache>>
  /\ cwd' = Chdir

\* lines 207-210 and 213 on the answer r to the first manifest GET
ManifestAnswer1(t, f, r) ==
  IF r = NoResponse
  THEN /\ frame' = Ended(t, Raise(f, "ClientError"))
       /\ UNCHANGED <<token, tokenLog, manifestCache>>
  ELSE IF r.status = 401
  THEN /\ IF HasHeader(r.headers, "WWW-Authenticate")
          THEN Auth(t, f, Header(r.headers, "WWW-Authenticate"))
          ELSE /\ frame' = Ended(t, Raise(f, "KeyError"))
               /\ UNCHANGED <<token, tokenLog>>
       /\ UNCHANGED manifestCache
  ELSE /\ UNCHANGED <<token, tokenLog>>
       /\ ManifestReturn(t, f, r)

\* the first manifest GET is answered (lines 206-210, 213)
ManifestResponse1(t, r) ==
  /\ frame[t].pc = "gm_wait1" /\ ~Blocked
  /\ ManifestAnswer1(t, Got(frame[t], r), r)
  /\ UNCHANGED <<tokenCache, credentials, configCache, layerCache, calls>>
  /\ cwd' = Chdir

\* a get_manifest that treats the second answer like the first: on a 401 it
\* negotiates and asks again
ManifestResponse2_again(t, r) ==
  /\ frame[t].pc = "gm_wait2" /\ ~Blocked
  /\ ManifestAnswer1(t, Got(frame[t], r), r)
  /\ UNCHANGED <<tokenCache, credentials, configCache, layerCache, calls>>
  /\ cwd' = Chdir

\* the second manifest GET is answered (lines 210-213)
ManifestResponse2(t, r) ==
  /\ frame[t].pc = "gm_wait2" /\ ~Blocked
  /\ LET f == Got(frame[t], r)
     IN IF r = NoResponse
        THEN /\ frame' = Ended(t, Raise(f, "ClientError"))
             /\ UNCHANGED manifestCache
        ELSE IF r.status = 401
        THEN /\ frame' = Ended(t, Raise(f, "ValueError"))
             /\ UNCHANGED manifestCache
        ELSE ManifestReturn(t, f, r)
  /\ UNCHANGED <<token, tokenCache, tokenLog, credentials, configCache, layerCache, calls>>
  /\ cwd' = Chdir

\* await ri.get_config(): architecture None, so get_manifest_from_architecture
\* is `(await self.get_manifest()).json()`
CallGetConfig(t) ==
  /\ CanCall(t) /\ ~Blocked
  /\ calls' = calls + 1
  /\ LET f == NewFrame("get_config")
     IN frame' = [frame EXCEPT ![t] =
          IF None \in DOMAIN configCache
          THEN Return(f, "response", configCache[None], configCache[None].data)
          ELSE EnterGetManifest(f, FALSE)]
  /\ UNCHANGED <<token, tokenCache, tokenLog, credentials, manifestCache, configCache,
                 layerCache>>
  /\ cwd' = Chdir

\* await ri.get_manifest_from_architecture(architecture)
CallGetManifestFromArchitecture(t, architecture) ==
  /\ CanCall(t) /\ ~Blocked
  /\ calls' = calls + 1
  /\ LET f == [NewFrame("get_manifest_from_architecture") EXCEPT !.arch = architecture]
     IN frame' = [frame EXCEPT ![t] = EnterGetManifest(f, architecture # None)]
  /\ UNCHANGED <<token, tokenCache, tokenLog, credentials, manifestCache, configCache,
                 layerCache>>
  /\ cwd' = Chdir

\* the manifest pull has fetched for the archive the frame holds: the one of
\* the frame when it is a pull, the one a push was started with otherwise
PulledManifest(f) == IF f.op = "push" THEN f.manifest0 ELSE f.manifest

\* await ri.pull(output_file, architecture); the frame keeps, for the
\* properties, the archive and the manifest of the task's call before
CallPull(t, architecture) ==
  /\ CanCall(t) /\ ~Blocked
  /\ calls' = calls + 1
  /\ LET f == [NewFrame("pull") EXCEPT !.arch = architecture, !.use_cache = TRUE,
                                       !.scratch = "exists",
                                       !.archive0 = frame[t].archive,
                                       !.manifest0 = PulledManifest(frame[t])]
     IN frame' = [frame EXCEPT ![t] = EnterGetManifest(f, architecture # None)]
  /\ UNCHANGED <<token, tokenCache, tokenLog, credentials, manifestCache, configCache,
                 layerCache>>
  /\ cwd' = Chdir

\* the program ends and is started again (cmd._pull, cmd._push): a new
\* session without a token and empty memos; the blob cache and the stored
\* credential are on disk and stay
NewProcess ==
  /\ \A t \in Tasks : frame[t].pc \in {"idle", "done"}
  /\ token # None \/ manifestCache # <<>> \/ configCache # <<>> \/ tokenCache # <<>>
  /\ token' = None
  /\ tokenCache' = <<>>
  /\ manifestCache' = <<>>
  /\ configCache' = <<>>
  /\ UNCHANGED <<tokenLog, credentials, layerCache, frame, calls>>
  /\ cwd' = StartDir

\* the config blob GET is answered (lines 242-243)
ConfigResponse(t, r) ==
  /\ frame[t].pc = "config_wait" /\ ~Blocked
  /\ LET f == Got(frame[t], r)
     IN IF r = NoResponse
        THEN /\ frame' = [frame EXCEPT ![t] = Raise(f, "ClientError")]
             /\ UNCHANGED configCache
        ELSE /\ frame' = [frame EXCEPT ![t] = AfterConfig(f, r, layerCache)]
             /\ configCache' = configCache @@ (None :> r)
  /\ UNCHANGED <<token, tokenCache, tokenLog, credentials, manifestCache, layerCache, calls>>
  /\ cwd' = Chdir

---------------------------------------------------------------------------
(* cmd._login: RegistryInfo.auth(username, password), called without a      *)
(* challenge, then save_credentials                                         *)

Usernames == {"u", "ab"}
Passwords == {"p"}

CallLogin(t, username, password) ==
  /\ CanCall(t) /\ ~Blocked
  /\ calls' = calls + 1
  /\ LET f == [NewFrame("login") EXCEPT !.username = username, !.password = password]
         method == IF https THEN "https" ELSE "http"
     IN frame' = [frame EXCEPT ![t] =
          Send(f, Request("get", method \o "://" \o registry \o "/v2/", {}, ""), "v2_wait")]
  /\ UNCHANGED <<token, tokenCache, tokenLog, credentials, manifestCache, configCache,
                 layerCache>>
  /\ cwd' = Chdir

\* GET /v2/ is answered (lines 123-132)
V2Response(t, r) ==
  /\ frame[t].pc = "v2_wait" /\ ~Blocked
  /\ LET f == Got(frame[t], r)
     IN IF r = NoResponse
        THEN /\ frame' = [frame EXCEPT ![t] = Raise(f, "ClientError")]
             /\ UNCHANGED <<token, tokenLog>>
        ELSE IF HasHeader(r.headers, "WWW-Authenticate")
        THEN Auth(t, f, Header(r.headers, "WWW-Authenticate"))
        ELSE /\ frame' = [frame EXCEPT ![t] = Raise(f, "KeyError")]
             /\ UNCHANGED <<token, tokenLog>>
  /\ UNCHANGED <<tokenCache, credentials, manifestCache, configCache, layerCache, calls>>
  /\ cwd' = Chdir

---------------------------------------------------------------------------
(* RegistryInfo.pull_layer *)

\* io.BytesIO.write(data) at the current position
Write(file_obj, data) ==
  [file_obj EXCEPT
     !.buf = SubSeq(@, 1, file_obj.pos) \o data
               \o SubSeq(@, file_obj.pos + Len(data) + 1, Len(@)),
     !.pos = @ + Len(data)]

\* the destinations a caller passes: none, an empty buffer, a buffer that
\* already holds bytes (positioned at its end, or at its start)
FileObjs ==
  {NoFile, [given |-> TRUE, buf |-> "", pos |-> 0], [given |-> TRUE, buf |-> "z", pos |-> 1],
   [given |-> TRUE, buf |-> "z", pos |-> 0]}

\* crpy.storage.get_layer_path(layer): the cache file of the digest, if any
get_layer_path(layer) == layer \in DOMAIN layerCache

\* crpy.storage.save_layer(layer, content): the cache after the write
save_layer(layer, content) == [d \in DOMAIN layerCache \cup {layer} |->
                                 IF d = layer THEN content ELSE layerCache[d]]

\* handle_content (lines 274-278)
handle_content(f, content) ==
  IF ~f.file_obj.given
  THEN Return(f, "bytes", NoResponse, content)
  ELSE Return([f EXCEPT !.file_obj = Write(@, content)], "none", NoResponse, "")

\* a pull_layer that never looks into the cache
CallPullLayer_remote(t, layer, file_obj, use_cache) ==
  /\ CanCall(t) /\ ~Blocked
  /\ calls' = calls + 1
  /\ LET f == [NewFrame("pull_layer") EXCEPT !.layer = layer, !.file_obj = file_obj,
                                             !.file_obj0 = file_obj,
                                             !.use_cache = use_cache]
     IN frame' = [frame EXCEPT ![t] =
          Send(f, BlobRequest(layer, token),
               IF file_obj.given THEN "stream_wait" ELSE "blob_wait")]
  /\ UNCHANGED <<token, tokenCache, tokenLog, credentials, manifestCache, configCache,
                 layerCache>>
  /\ cwd' = Chdir

\* await ri.pull_layer(layer, file_obj, use_cache) up to its first await
\* (lines 260-265, 283, 289-293)
CallPullLayer(t, layer, file_obj, use_cache) ==
  /\ CanCall(t) /\ ~Blocked
  /\ calls' = calls + 1
  /\ LET f == [NewFrame("pull_layer") EXCEPT !.layer = layer, !.file_obj = file_obj,
                                             !.file_obj0 = file_obj,
                                             !.use_cache = use_cache]
     IN frame' = [frame EXCEPT ![t] =
          IF use_cache /\ get_layer_path(layer)
          THEN handle_content(f, layerCache[layer])
          ELSE Send(f, BlobRequest(layer, token),
                    IF file_obj.given THEN "stream_wait" ELSE "blob_wait")]
  /\ UNCHANGED <<token, tokenCache, tokenLog, credentials, manifestCache, configCache,
                 layerCache>>
  /\ cwd' = Chdir

\* get_content_from_remote once the content is there (lines 284-286)
ContentFromRemote(t, f, content) ==
  /\ layerCache' = IF f.use_cache
                   THEN save_layer(f.layer, IF f.file_obj.given THEN f.file_obj.buf
                                            ELSE content)
                   ELSE layerCache
  /\ frame' = [frame EXCEPT ![t] =
       IF f.op = "pull" THEN PullLayers(LayerDone(f, content), layerCache')
       ELSE Return(f, "bytes", NoResponse, content)]

\* the buffered blob GET is answered (lines 290-291, 284-286)
BlobResponse(t, r) ==
  /\ frame[t].pc = "blob_wait" /\ ~Blocked
  /\ LET f == Got(frame[t], r)
     IN IF r = NoResponse
        THEN /\ frame' = [frame EXCEPT ![t] = Raise(f, "ClientError")]
             /\ UNCHANGED layerCache
        ELSE ContentFromRemote(t, f, r.data)
  /\ UNCHANGED <<token, tokenCache, tokenLog, credentials, manifestCache, configCache, calls>>
  /\ cwd' = Chdir

\* the streamed blob GET is answered: the body follows in chunks (lines 49-53)
StreamResponse(t, r) ==
  /\ frame[t].pc = "stream_wait" /\ ~Blocked
  /\ LET f == Got(frame[t], r)
     IN frame' = [frame EXCEPT ![t] =
          IF r = NoResponse THEN Raise(f, "ClientError")
          ELSE [f EXCEPT !.pc = "stream", !.remaining = r.data]]
  /\ UNCHANGED <<token, tokenCache, tokenLog, credentials, manifestCache, configCache,
                 layerCache, calls>>
  /\ cwd' = Chdir

\* the next n bytes of the body arrive as one chunk (lines 293-294)
StreamChunk(t, n) ==
  /\ frame[t].pc = "stream" /\ ~Blocked
  /\ n \in 1..Len(frame[t].remaining)
  /\ LET f == frame[t]
     IN frame' = [frame EXCEPT ![t] =
          [f EXCEPT !.file_obj = Write(@, SubSeq(f.remaining, 1, n)),
                    !.remaining = SubSeq(@, n + 1, Len(@))]]
  /\ UNCHANGED <<token, tokenCache, tokenLog, credentials, manifestCache, configCache,
                 layerCache, calls>>
  /\ cwd' = Chdir

\* the body has ended (lines 295-296, 284-286)
StreamEnd(t) ==
  /\ frame[t].pc = "stream" /\ ~Blocked
  /\ frame[t].remaining = ""
  /\ LET f == [frame[t] EXCEPT !.file_obj.pos = 0]
     IN ContentFromRemote(t, f, f.file_obj.buf)
  /\ UNCHANGED <<token, tokenCache, tokenLog, credentials, manifestCache, configCache, calls>>
  /\ cwd' = Chdir

\* the connection breaks before the body has ended
StreamAbort(t) ==
  /\ frame[t].pc = "stream" /\ ~Blocked
  /\ frame[t].remaining # ""
  /\ frame' = [frame EXCEPT ![t] = Raise(@, "ClientError")]
  /\ UNCHANGED <<token, tokenCache, tokenLog, credentials, manifestCache, configCache,
                 layerCache, calls>>
  /\ cwd' = Chdir

\* the places a call is suspended at an await
AwaitPcs ==
  {"gm_wait1", "gm_wait2", "gm_join", "config_wait", "v2_wait", "blob_wait", "stream_wait", "stream",
   "head_wait1", "head_wait2", "post_wait", "put_wait", "manifest_wait"}

\* the task is cancelled while suspended: CancelledError is raised at the await
Cancel(t) ==
  /\ frame[t].pc \in AwaitPcs /\ ~Blocked
  /\ frame' = Ended(t, Raise(frame[t], "CancelledError"))
  /\ UNCHANGED <<token, tokenCache, tokenLog, credentials, manifestCache, configCache,
                 layerCache, calls>>
  /\ cwd' = Chdir

---------------------------------------------------------------------------
(* RegistryInfo.push_layer *)

UploadLocation == "https://r.io/v2/lib/x/blobs/uploads/1?_state=s"

\* bearer challenges by their parts: the realm, the service, and the
\* repository name and the actions of the scope
ScopeChallenges ==
  {[realm |-> "https://a.io/token", service |-> "r.io", name |-> "lib/x", actions |-> "pull"],
   [realm |-> "https://a.io/token", service |-> "r.io", name |-> "lib/x",
    actions |-> "pull,push"],
   [realm |-> "https://a.io/pull", service |-> "r.io", name |-> "lib/x", actions |-> "pull"]}

\* the WWW-Authenticate header of a challenge
ChallengeOf(c) ==
  "Bearer realm=\"" \o c.realm \o "\",service=\"" \o c.service
    \o "\",scope=\"repository:" \o c.name \o ":" \o c.actions \o "\""

HeadResponses ==
  {Response(200, "", {}), Response(404, "", {}), NoResponse}
  \cup {Response(401, "", h) : h \in ChallengeHeaders}
  \cup {Response(401, "", {<<"WWW-Authenticate", ChallengeOf(c)>>}) : c \in ScopeChallenges}

PostResponses ==
  {Response(s, "", h) : s \in {202, 500}, h \in {{}, {<<"Location", UploadLocation>>}}}
  \cup {Response(401, "", {}), NoResponse}

PutResponses == {Response(201, "", {}), Response(400, "", {}), Response(401, "", {}), NoResponse}

\* push_layer for a file of the unpacked archive, up to its first await
\* (lines 334-347)
PushFile(f, path) ==
  IF ~HasHeader(f.temp_dir, path) THEN Raise(f, "FileNotFoundError")
  ELSE LET content == Header(f.temp_dir, path)
           digest == compute_sha256(content)
       IN Send([f EXCEPT !.content = content, !.force = FALSE, !.digest = digest,
                         !.size = Len(content)],
               Request("head", blobs_url \o "/" \o digest, _headers(token), ""),
               "head_wait1")

\* push lines 420-432: the next layer is pushed, or the manifest once the
\* layers are done
PushLayers(f) ==
  IF f.todo # <<>> THEN PushFile(f, Head(f.todo))
  ELSE Send([f EXCEPT !.image_manifest = build_manifest(f.config_manifest, f.layers_manifest)],
            Request("put", manifest_url,
                    _headers(token) \cup {<<"Content-Type", _schema2_mimetype>>},
                    "json.dumps(manifest)"),
            "manifest_wait")

\* a push that lists the layer pushed last first
LayerPushed_prepend(f) ==
  IF f.op = "push_layer" THEN Return(f, "dict", NoResponse, "")
  ELSE IF f.config_manifest = NoBlob
  THEN PushLayers([f EXCEPT !.config_manifest =
                     [size |-> f.size, digest |-> f.digest,
                      mediaType |-> "application/vnd.docker.container.image.v1+json"]])
  ELSE PushLayers([f EXCEPT !.layers_manifest =
                     <<[size |-> f.size, digest |-> f.digest,
                        mediaType |->
                          "application/vnd.docker.image.rootfs.diff.tar.gzip"]>> \o @,
                            !.todo = Tail(@)])

\* push_layer returns its manifest (lines 357, 370) to the caller: push goes
\* on with lines 415-416 after the config and 423-429 after a layer
LayerPushed(f) ==
  IF f.op = "push_layer" THEN Return(f, "dict", NoResponse, "")
  ELSE IF f.config_manifest = NoBlob
  THEN PushLayers([f EXCEPT !.config_manifest =
                     [size |-> f.size, digest |-> f.digest,
                      mediaType |-> "application/vnd.docker.container.image.v1+json"]])
  ELSE PushLayers([f EXCEPT !.layers_manifest =
                     Append(@, [size |-> f.size, digest |-> f.digest,
                                mediaType |->
                                  "application/vnd.docker.image.rootfs.diff.tar.gzip"]),
                            !.todo = Tail(@)])

\* the path of a member below the directory the archive is extracted to
ExtractedPath(name) == IF StartsWith(name, "./") THEN SubSeq(name, 3, Len(name)) ELSE name

\* manifest[upper] if upper in manifest else manifest[lower] (lines 407, 412)
HasKey(manifest, upper, lower) == upper \in DOMAIN manifest \/ lower \in DOMAIN manifest

Lookup(manifest, upper, lower) ==
  IF upper \in DOMAIN manifest THEN manifest[upper] ELSE manifest[lower]

\* a push that reads the first element of manifest.json
UnpackArchive_first(f, input_file) ==
  LET g == [f EXCEPT !.scratch = "exists",
                     !.temp_dir = {<<ExtractedPath(m[1]), m[2]>> : m \in input_file.members}]
      manifest == input_file.manifest_json[1]
  IN IF input_file.kind = "none" THEN Raise(f, "FileNotFoundError")
     ELSE IF input_file.kind # "tar" THEN Raise(f, "ValueError")
     ELSE IF ~HasHeader(g.temp_dir, "manifest.json") THEN Raise(g, "FileNotFoundError")
     ELSE IF input_file.manifest_json = <<>> THEN Raise(g, "IndexError")
     ELSE IF ~HasKey(manifest, "Layers", "layers") THEN Raise(g, "KeyError")
     ELSE IF ~HasKey(manifest, "Config", "config") THEN Raise(g, "KeyError")
     ELSE PushFile([g EXCEPT !.todo = Lookup(manifest, "Layers", "layers")],
                   Lookup(manifest, "Config", "config"))

\* push lines 395-414, up to the first await: the file is opened as a tar
\* (an unreadable one is a ValueError, a missing one is not caught), it is
\* extracted into a new temporary directory, manifest.json is read and its
\* last element gives the layers and the config, and the config is pushed
UnpackArchive(f, input_file) ==
  LET g == [f EXCEPT !.scratch = "exists",
                     !.temp_dir = {<<ExtractedPath(m[1]), m[2]>> : m \in input_file.members}]
      manifest == input_file.manifest_json[Len(input_file.manifest_json)]
  IN IF input_file.kind = "none" THEN Raise(f, "FileNotFoundError")
     ELSE IF input_file.kind # "tar" THEN Raise(f, "ValueError")
     ELSE IF ~HasHeader(g.temp_dir, "manifest.json") THEN Raise(g, "FileNotFoundError")
     ELSE IF input_file.manifest_json = <<>> THEN Raise(g, "IndexError")
     ELSE IF ~HasKey(manifest, "Layers", "layers") THEN Raise(g, "KeyError")
     ELSE IF ~HasKey(manifest, "Config", "config") THEN Raise(g, "KeyError")
     ELSE PushFile([g EXCEPT !.todo = Lookup(manifest, "Layers", "layers")],
                   Lookup(manifest, "Config", "config"))

\* await ri.push(input_file) up to its first await; the frame keeps the file
\* and, for the properties, the manifest of the pull before
CallPush(t, input_file) ==
  /\ CanCall(t) /\ ~Blocked
  /\ calls' = calls + 1
  /\ LET f == [NewFrame("push") EXCEPT
                 !.archive = input_file, !.manifest0 = PulledManifest(frame[t])]
     IN frame' = [frame EXCEPT ![t] = UnpackArchive(f, input_file)]
  /\ UNCHANGED <<token, tokenCache, tokenLog, credentials, manifestCache, configCache,
                 layerCache>>
  /\ cwd' = Chdir

\* r.headers.get("Docker-Content-Digest", "") or
\* r.headers.get("docker-content-digest") (line 434)
image_digest_of(headers) ==
  IF HasHeader(headers, "Docker-Content-Digest")
       /\ Truthy(Header(headers, "Docker-Content-Digest"))
  THEN Header(headers, "Docker-Content-Digest")
  ELSE IF HasHeader(headers, "docker-content-digest")
  THEN Header(headers, "docker-content-digest")
  ELSE None

\* the answers to the PUT of the manifest
ManifestPutResponses == {Response(201, "", {}), Response(400, ErrorBody, {}), NoResponse}

\* the PUT of the manifest is answered (push_manifest line 391, push 432-435)
ManifestPutResponse(t, r) ==
  /\ frame[t].pc = "manifest_wait" /\ ~Blocked
  /\ LET f == Got(frame[t], r)
     IN frame' = [frame EXCEPT ![t] =
          IF r = NoResponse THEN Raise(f, "ClientError")
          ELSE IF r.status # 201 THEN Raise(f, "AssertionError")
          ELSE Return([f EXCEPT !.image_digest = image_digest_of(r.headers)],
                      "none", NoResponse, "")]
  /\ UNCHANGED <<token, tokenCache, tokenLog, credentials, manifestCache, configCache,
                 layerCache, calls>>
  /\ cwd' = Chdir

\* await ri.push_layer(content, force) up to its first await (lines 334-347)
CallPushLayer(t, content, force) ==
  /\ CanCall(t) /\ ~Blocked
  /\ calls' = calls + 1
  /\ LET digest == compute_sha256(content)
         f == [NewFrame("push_layer") EXCEPT !.content = content, !.force = force,
                                             !.digest = digest, !.size = Len(content)]
     IN frame' = [frame EXCEPT ![t] =
          Send(f, Request("head", blobs_url \o "/" \o digest, _headers(token), ""),
               "head_wait1")]
  /\ UNCHANGED <<token, tokenCache, tokenLog, credentials, manifestCache, configCache,
                 layerCache>>
  /\ cwd' = Chdir

\* a push_layer that skips the upload of an existing blob also when forced
AfterExistenceCheck_unforced(f, r, tok) ==
  IF r.status = 200
  THEN LayerPushed([f EXCEPT !.existing = TRUE])
  ELSE Send(f, Request("post", blobs_url \o "/uploads/", _headers(tok), ""), "post_wait")

\* lines 354-359: the blob exists and is not forced, or the upload begins
AfterExistenceCheck(f, r, tok) ==
  IF r.status = 200 /\ ~f.force
  THEN LayerPushed([f EXCEPT !.existing = TRUE])
  ELSE Send(f, Request("post", blobs_url \o "/uploads/", _headers(tok), ""), "post_wait")

\* the HEAD is answered (lines 347-351, 354-359)
HeadResponse1(t, r) ==
  /\ frame[t].pc = "head_wait1" /\ ~Blocked
  /\ LET f == Got(frame[t], r)
     IN IF r = NoResponse
        THEN /\ frame' = [frame EXCEPT ![t] = Raise(f, "ClientError")]
             /\ UNCHANGED <<token, tokenLog>>
        ELSE IF r.status = 401
        THEN IF HasHeader(r.headers, "WWW-Authenticate")
             THEN Auth(t, f, replace(Header(r.headers, "WWW-Authenticate"),
                                     "pull", "pull,push", -1))
             ELSE /\ frame' = [frame EXCEPT ![t] = Raise(f, "KeyError")]
                  /\ UNCHANGED <<token, tokenLog>>
        ELSE /\ frame' = [frame EXCEPT ![t] = AfterExistenceCheck(f, r, token)]
             /\ UNCHANGED <<token, tokenLog>>
  /\ UNCHANGED <<tokenCache, credentials, manifestCache, configCache, layerCache, calls>>
  /\ cwd' = Chdir

\* the request repeated after the negotiation is answered (lines 351-359)
HeadResponse2(t, r) ==
  /\ frame[t].pc = "head_wait2" /\ ~Blocked
  /\ LET f == Got(frame[t], r)
     IN frame' = [frame EXCEPT ![t] =
          IF r = NoResponse THEN Raise(f, "ClientError")
          ELSE IF r.status = 401 THEN Raise(f, "ValueError")
          ELSE AfterExistenceCheck(f, r, token)]
  /\ UNCHANGED <<token, tokenCache, tokenLog, credentials, manifestCache, configCache,
                 layerCache, calls>>
  /\ cwd' = Chdir

\* the upload-session POST is answered (lines 359-367)
PostResponse(t, r) ==
  /\ frame[t].pc = "post_wait" /\ ~Blocked
  /\ LET f == Got(frame[t], r)
     IN frame' = [frame EXCEPT ![t] =
          IF r = NoResponse THEN Raise(f, "ClientError")
          ELSE IF ~HasHeader(r.headers, "Location") THEN Raise(f, "KeyError")
          ELSE Send(f, Request("put", Header(r.headers, "Location") \o "&digest=" \o f.digest,
                               _headers(token)
                                 \cup {<<"Content-Type", "application/octet-stream">>},
                               f.content), "put_wait")]
  /\ UNCHANGED <<token, tokenCache, tokenLog, credentials, manifestCache, configCache,
                 layerCache, calls>>
  /\ cwd' = Chdir

\* a push_layer that goes on whatever the commit PUT is answered
PutResponse_any(t, r) ==
  /\ frame[t].pc = "put_wait" /\ ~Blocked
  /\ LET f == Got(frame[t], r)
     IN frame' = [frame EXCEPT ![t] =
          IF r = NoResponse THEN Raise(f, "ClientError")
          ELSE LayerPushed([f EXCEPT !.existing = FALSE])]
  /\ UNCHANGED <<token, tokenCache, tokenLog, credentials, manifestCache, configCache,
                 layerCache, calls>>
  /\ cwd' = Chdir

\* the commit PUT is answered (lines 368-370)
PutResponse(t, r) ==
  /\ frame[t].pc = "put_wait" /\ ~Blocked
  /\ LET f == Got(frame[t], r)
     IN frame' = [frame EXCEPT ![t] =
          IF r = NoResponse THEN Raise(f, "ClientError")
          ELSE IF r.status # 201 THEN Raise(f, "AssertionError")
          ELSE LayerPushed([f EXCEPT !.existing = FALSE])]
  /\ UNCHANGED <<token, tokenCache, tokenLog, credentials, manifestCache, configCache,
                 layerCache, calls>>
  /\ cwd' = Chdir

---------------------------------------------------------------------------
(* crpy/docker_pull.py: get and pull, synchronous code over http.client    *)
(* and requests.  A call is suspended while a request waits for its answer *)

\* dict((k.lower(), v) for k, v in dict(r.headers).items()) (line 32)
LowerKeys(headers) == {<<str_lower(h[1]), h[2]>> : h \in headers}

\* del headers_req["Authorization"] (line 41), when the key is there
WithoutAuthorization(headers) == {h \in headers : h[1] # "Authorization"}

\* the headers pull builds for its request (lines 53-54)
PullHeaders(tok) ==
  (IF tok = None THEN {} ELSE {<<"Authorization", "Bearer " \o tok>>})
    \cup {<<"Accept", _schema2_mimetype>>}

\* the lru_cache key of get_token(url), called with one positional argument
PositionalKey(url) == <<url>>

\* pull calls itself with the token (line 60): the next GET of the path, or
\* RecursionError once the interpreter's limit is reached
Recurse(f, tok) ==
  IF f.depth >= RecursionLimit THEN Raise(f, "RecursionError")
  ELSE Send([f EXCEPT !.depth = @ + 1, !.headers_req = PullHeaders(tok)],
            Request("get", f.url, PullHeaders(tok), ""), "dp_wait1")

\* get has returned res (a status, the content and headers): get's caller
\* has its result; pull goes on with lines 56-63
GetReturned(t, f, res) ==
  IF f.op = "get"
  THEN /\ frame' = [frame EXCEPT ![t] = Return(f, "dict", res, "")]
       /\ UNCHANGED <<tokenCache, tokenLog>>
  ELSE IF res.status = 401
  THEN IF ~HasHeader(res.headers, "www-authenticate")
       THEN /\ frame' = [frame EXCEPT ![t] = Raise(f, "KeyError")]
            /\ UNCHANGED <<tokenCache, tokenLog>>
       ELSE IF ~StartsWith(Header(res.headers, "www-authenticate"), "Bearer realm=\"")
       THEN /\ frame' = [frame EXCEPT ![t] = Raise(f, "AssertionError")]
            /\ UNCHANGED <<tokenCache, tokenLog>>
       ELSE LET url == get_url_from_auth_header(Header(res.headers, "www-authenticate"))
                key == PositionalKey(url)
                g == [f EXCEPT !.negs = @ + 1, !.key = key]
            IN IF key \in DOMAIN tokenCache
               THEN /\ frame' = [frame EXCEPT ![t] = Recurse(g, tokenCache[key])]
                    /\ UNCHANGED <<tokenCache, tokenLog>>
               ELSE /\ tokenLog' = Append(tokenLog,
                         [url |-> url, key |-> key, state |-> "sent",
                          headers |-> get_token_headers(None, None, None)])
                    /\ frame' = [frame EXCEPT ![t] =
                         [g EXCEPT !.pc = "dp_tok_wait", !.log_idx = Len(tokenLog) + 1]]
                    /\ UNCHANGED tokenCache
  ELSE /\ frame' = [frame EXCEPT ![t] =
            IF res.status # 200 THEN Raise(f, "AssertionError")
            ELSE Return(f, "dict", res, "")]
       /\ UNCHANGED <<tokenCache, tokenLog>>

\* get(url, headers_req) up to h.getresponse() (lines 16-29)
CallGet(t, url, headers_req) ==
  /\ CanCall(t)
  /\ calls' = calls + 1
  /\ frame' = [frame EXCEPT ![t] =
       Send([NewFrame("get") EXCEPT !.url = url, !.headers_req = headers_req],
            Request("get", url, headers_req, ""), "dp_wait1")]
  /\ UNCHANGED <<token, tokenCache, tokenLog, credentials, manifestCache, configCache,
                 layerCache>>
  /\ cwd' = Chdir

\* pull(path, token) up to h.getresponse() in get (lines 52-55, 16-29)
CallDockerPull(t, path, tok) ==
  /\ CanCall(t)
  /\ calls' = calls + 1
  /\ frame' = [frame EXCEPT ![t] =
       Send([NewFrame("docker_pull") EXCEPT !.url = path, !.depth = 1,
                                            !.headers_req = PullHeaders(tok)],
            Request("get", path, PullHeaders(tok), ""), "dp_wait1")]
  /\ UNCHANGED <<token, tokenCache, tokenLog, credentials, manifestCache, configCache,
                 layerCache>>
  /\ cwd' = Chdir

\* the GET is answered (lines 29-49): a 301 or 307 is followed without the
\* Authorization header, any other answer is returned
GetResponse1(t, r) ==
  /\ frame[t].pc = "dp_wait1"
  /\ LET f == Got(frame[t], r)
         headers == LowerKeys(r.headers)
     IN IF r = NoResponse
        THEN /\ frame' = [frame EXCEPT ![t] = Raise(f, "ClientError")]
             /\ UNCHANGED <<tokenCache, tokenLog>>
        ELSE IF r.status \in {301, 307}
        THEN /\ frame' = [frame EXCEPT ![t] =
                  IF ~HasHeader(f.headers_req, "Authorization") THEN Raise(f, "KeyError")
                  ELSE IF ~HasHeader(headers, "location")
                  THEN Raise([f EXCEPT !.headers_req = WithoutAuthorization(@)], "KeyError")
                  ELSE Send([f EXCEPT !.headers_req = WithoutAuthorization(@)],
                            Request("get", Header(headers, "location"),
                                    WithoutAuthorization(f.headers_req), ""),
                            "dp_wait2")]
             /\ UNCHANGED <<tokenCache, tokenLog>>
        ELSE GetReturned(t, f, Response(r.status, r.data, headers))
  /\ UNCHANGED <<token, credentials, manifestCache, configCache, layerCache, calls>>
  /\ cwd' = Chdir

\* the request to the Location is answered (lines 42-47): the result holds
\* the status and the content of the answer and, as headers, headers_req
GetResponse2(t, r) ==
  /\ frame[t].pc = "dp_wait2"
  /\ LET f == Got(frame[t], r)
     IN IF r = NoResponse
        THEN /\ frame' = [frame EXCEPT ![t] = Raise(f, "ClientError")]
             /\ UNCHANGED <<tokenCache, tokenLog>>
        ELSE GetReturned(t, f, Response(r.status, r.data, f.headers_req))
  /\ UNCHANGED <<token, credentials, manifestCache, configCache, layerCache, calls>>
  /\ cwd' = Chdir

\* the token endpoint answers the get_token of pull (auth.py lines 23-30,
\* docker_pull.py lines 59-60)
PullTokenResponse(t, resp) ==
  /\ frame[t].pc = "dp_tok_wait"
  /\ tokenLog' = [tokenLog EXCEPT ![frame[t].log_idx].state =
                      IF get_token_result(resp).ok THEN "ok" ELSE "failed"]
  /\ LET f == [frame[t] EXCEPT !.tok_resp = resp]
         r == get_token_result(resp)
     IN IF r.ok
        THEN /\ tokenCache' = tokenCache @@ (f.key :> r.token)
             /\ frame' = [frame EXCEPT ![t] = Recurse(f, r.token)]
        ELSE /\ frame' = [frame EXCEPT ![t] = Raise(f, r.error)]
             /\ UNCHANGED tokenCache
  /\ UNCHANGED <<token, credentials, manifestCache, configCache, layerCache, calls>>
  /\ cwd' = Chdir

---------------------------------------------------------------------------
(* The specifications *)

V2Responses ==
  {Response(200, "", {}), NoResponse} \cup {Response(401, "", h) : h \in ChallengeHeaders}

Init ==
  /\ token = None
  /\ tokenCache = <<>>
  /\ tokenLog = <<>>
  /\ credentials \in {None, b64encode(encode("u:p"))}
  /\ manifestCache = <<>>
  /\ configCache = <<>>
  /\ layerCache = <<>>
  /\ frame = [t \in Tasks |-> IdleFrame]
  /\ calls = 0
  /\ cwd = StartDir

\* one task on the session: manifests, configs and logins
Next ==
  \E t \in {1} :
    \/ \E fat \in BOOLEAN : CallGetManifest(t, fat)
    \/ \E r \in ManifestResponses : ManifestResponse1(t, r)
    \/ \E r \in ManifestResponses : ManifestResponse2(t, r)
    \/ CallGetConfig(t)
    \/ \E r \in BlobResponses : ConfigResponse(t, r)
    \/ \E u \in Usernames, p \in Passwords : CallLogin(t, u, p)
    \/ \E r \in V2Responses : V2Response(t, r)
    \/ \E r \in TokenResponses : TokenResponse(t, r)
    \/ Cancel(t)

Spec == Init /\ [][Next]_vars

\* one task pulling: manifest, config and layers
NextPull ==
  \E t \in {1} :
    \/ \E fat \in BOOLEAN : CallGetManifest(t, fat)
    \/ \E r \in ManifestResponses : ManifestResponse1(t, r)
    \/ \E r \in ManifestResponses : ManifestResponse2(t, r)
    \/ \E r \in TokenResponses : TokenResponse(t, r)
    \/ CallGetConfig(t)
    \/ \E r \in BlobResponses : ConfigResponse(t, r)
    \/ \E d \in Digests, fo \in FileObjs, uc \in BOOLEAN : CallPullLayer(t, d, fo, uc)
    \/ \E r \in BlobResponses : BlobResponse(t, r)
    \/ \E r \in BlobResponses : StreamResponse(t, r)
    \/ \E n \in 1..2 : StreamChunk(t, n)
    \/ StreamEnd(t)
    \/ StreamAbort(t)
    \/ Cancel(t)

SpecPull == Init /\ [][NextPull]_vars

\* one task pushing blobs
NextPush ==
  \E t \in {1} :
    \/ \E c \in Contents, force \in BOOLEAN : CallPushLayer(t, c, force)
    \/ \E r \in HeadResponses : HeadResponse1(t, r)
    \/ \E r \in TokenResponses : TokenResponse(t, r)
    \/ \E r \in HeadResponses : HeadResponse2(t, r)
    \/ \E r \in PostResponses : PostResponse(t, r)
    \/ \E r \in PutResponses : PutResponse(t, r)
    \/ Cancel(t)

SpecPush == Init /\ [][NextPush]_vars

\* the answers of the registry that matter to the token memo: a challenge, or
\* the manifest
Challenged == Response(401, ErrorBody, {<<"WWW-Authenticate", PullChallenge>>})

\* two tasks on the session, each negotiating through a login or a manifest
NextToken ==
  \E t \in Tasks :
    \/ \E u \in Usernames, p \in Passwords : CallLogin(t, u, p)
    \/ V2Response(t, Challenged)
    \/ \E fat \in BOOLEAN : CallGetManifest(t, fat)
    \/ \E r \in {Challenged, Response(200, ManifestBody, {})} : ManifestResponse1(t, r)
    \/ \E r \in {Challenged, Response(200, ManifestBody, {})} : ManifestResponse2(t, r)
    \/ \E r \in TokenResponses : TokenResponse(t, r)

SpecToken == Init /\ [][NextToken]_vars

\* the answers of a registry to a manifest GET: manifest lists, a manifest,
\* a challenge, none
ListResponses ==
  {Response(200, b, {}) : b \in ListBodies}
  \cup {Response(200, ManifestBody, {}), Challenged, NoResponse}

\* two tasks resolving manifests on the session
NextManifest ==
  \E t \in Tasks :
    \/ \E fat \in BOOLEAN : CallGetManifest(t, fat)
    \/ \E a \in Architectures \cup {None} : CallGetManifestFromArchitecture(t, a)
    \/ \E r \in ListResponses : ManifestResponse1(t, r)
    \/ \E r \in ListResponses : ManifestResponse2(t, r)
    \/ \E r \in {[status |-> 200, json |-> {<<"token", "t1">>}],
                  [status |-> 401, json |-> {}]} : TokenResponse(t, r)
    \/ Cancel(t)

SpecManifest == Init /\ [][NextManifest]_vars

InitImage == Init /\ credentials = None

\* two tasks pulling layers through the cache, as a caller does that fetches
\* the layers of an image concurrently
NextLayers ==
  \E t \in Tasks :
    \/ \E d \in Digests, fo \in {NoFile, [given |-> TRUE, buf |-> "", pos |-> 0]} :
         CallPullLayer(t, d, fo, TRUE)
    \/ \E r \in {Response(200, c, {}) : c \in Contents} \cup {NoResponse} : BlobResponse(t, r)
    \/ \E r \in {Response(200, c, {}) : c \in Contents} : StreamResponse(t, r)
    \/ \E n \in 1..2 : StreamChunk(t, n)
    \/ StreamEnd(t)
    \/ StreamAbort(t)

SpecLayers == InitImage /\ [][NextLayers]_vars

\* the answers of a registry that holds images: to a manifest GET, and to a
\* blob GET (the bytes asked for, other bytes, an error, none)
ImageResponses == {Response(200, b, {}) : b \in ImageBodies} \cup {Response(200, "list1", {})}

ImageBlobResponses == {Response(200, c, {}) : c \in Contents} \cup {Response(404, ErrorBody, {})}

\* one task pulling images into archives and pushing the archives, in one
\* run of the program or in several, with a registry that asks for no token
NextImage ==
  \E t \in {1} :
    \/ \E a \in {None, "linux/amd64"} : CallPull(t, a)
    \/ \E r \in ImageResponses : ManifestResponse1(t, r)
    \/ \E r \in ImageBlobResponses : ConfigResponse(t, r)
    \/ \E r \in ImageBlobResponses : BlobResponse(t, r)
    \/ NewProcess
    \/ frame[t].archive.kind = "tar" /\ CallPush(t, frame[t].archive)
    \/ \E r \in {Response(200, "", {}), Response(404, "", {})} : HeadResponse1(t, r)
    \/ \E r \in {Response(202, "", {<<"Location", UploadLocation>>})} : PostResponse(t, r)
    \/ \E r \in {Response(201, "", {}), Response(400, "", {})} : PutResponse(t, r)
    \/ \E r \in ManifestPutResponses : ManifestPutResponse(t, r)

SpecImage == InitImage /\ [][NextImage]_vars

\* the files of an image in an archive: two configs and two layers
ArchiveFiles ==
  {<<"c1.json", "a">>, <<"c2.json", "ab">>, <<"l1/layer.tar", "b">>, <<"l2/layer.tar", "ba">>}

\* elements of a manifest.json: with the keys docker writes, with the keys in
\* lower case, with both, with one of each, and with a key missing
ManifestElements ==
  { [Config |-> "c1.json", RepoTags |-> <<>>, Layers |-> <<"l1/layer.tar", "l2/layer.tar">>],
    [config |-> "c2.json", layers |-> <<"l2/layer.tar", "l1/layer.tar">>],
    [Config |-> "c1.json", config |-> "c2.json",
     Layers |-> <<"l1/layer.tar">>, layers |-> <<"l2/layer.tar">>],
    [Config |-> "c2.json", layers |-> <<>>],
    [config |-> "c1.json", Layers |-> <<"l2/layer.tar">>],
    [RepoTags |-> <<>>],
    [Config |-> "c1.json"],
    [layers |-> <<"l1/layer.tar">>] }

\* elements that come before the last one
EarlierElements ==
  { [Config |-> "c1.json", RepoTags |-> <<>>, Layers |-> <<"l1/layer.tar", "l2/layer.tar">>],
    [config |-> "c2.json", layers |-> <<"l2/layer.tar", "l1/layer.tar">>] }

\* the files push is given: tars whose manifest.json is an array of none, one
\* or two elements, a tar without manifest.json, a tar that lacks a file its
\* manifest names, a file that is no tar, and no file
InputFiles ==
  {[kind |-> "tar", members |-> ArchiveFiles \cup {<<"manifest.json", "manifest.json">>},
    manifest_json |-> m] :
     m \in {<<>>} \cup {<<e>> : e \in ManifestElements}
            \cup {<<d, e>> : d \in EarlierElements, e \in ManifestElements}}
  \cup {[kind |-> "tar", members |-> ArchiveFiles, manifest_json |-> <<>>],
        [kind |-> "tar", members |-> {<<"manifest.json", "manifest.json">>},
         manifest_json |-> <<[Config |-> "c1.json", Layers |-> <<>>]>>],
        [kind |-> "other", members |-> {}, manifest_json |-> <<>>],
        NoArchive}

\* one task that pushes files it is given and pulls images, with a registry
\* that asks for no token; requests may fail and the task may be cancelled
NextArchive ==
  \E t \in {1} :
    \/ \E input_file \in InputFiles : CallPush(t, input_file)
    \/ \E r \in {Response(200, "", {}), Response(404, "", {}), NoResponse} : HeadResponse1(t, r)
    \/ \E r \in {Response(202, "", {<<"Location", UploadLocation>>})} : PostResponse(t, r)
    \/ \E r \in {Response(201, "", {}), Response(400, "", {})} : PutResponse(t, r)
    \/ \E r \in ManifestPutResponses : ManifestPutResponse(t, r)
    \/ CallPull(t, None)
    \/ \E r \in ImageResponses \cup {NoResponse} : ManifestResponse1(t, r)
    \/ \E r \in ImageBlobResponses \cup {NoResponse} : ConfigResponse(t, r)
    \/ \E r \in ImageBlobResponses \cup {NoResponse} : BlobResponse(t, r)
    \/ Cancel(t)

SpecArchive == InitImage /\ [][NextArchive]_vars

\* the parts of the bearer challenges a registry may send: realms with and
\* without a scheme, a service, scopes
Realms == {"https://a.io/token", "http://b.io/t", "a.io/token", "realm.io/t"}
Services == {"r.io"}
Scopes == {"repository:lib/x:pull", "repository:lib/x:pull,push"}

\* the header `Bearer realm="R",service="S",scope="P"`
BearerChallenge(R, S, P) ==
  "Bearer realm=\"" \o R \o "\",service=\"" \o S \o "\",scope=\"" \o P \o "\""

\* headers that do not begin with `Bearer realm="`
OtherChallenges == {BasicChallenge, "bearer realm=\"https://a.io/token\"", ""}

ChallengeResponses ==
  {Response(401, ErrorBody, {<<"WWW-Authenticate", BearerChallenge(R, S, P)>>}) :
     R \in Realms, S \in Services, P \in Scopes}
  \cup {Response(401, ErrorBody, {<<"WWW-Authenticate", h>>}) : h \in OtherChallenges}

\* one task fetching manifests from a registry that answers with a challenge
NextChallenge ==
  \E t \in {1} :
    \/ CallGetManifest(t, FALSE)
    \/ \E r \in ChallengeResponses : ManifestResponse1(t, r)
    \/ \E r \in {Response(200, ManifestBody, {})} : ManifestResponse2(t, r)
    \/ \E r \in {[status |-> 200, json |-> {<<"token", "t1">>}],
                  [status |-> 401, json |-> {}]} : TokenResponse(t, r)

SpecChallenge == InitImage /\ [][NextChallenge]_vars

\* the texts given as a reference: an optional scheme, an optional first
\* segment (a host, a host with a port, Docker Hub, a namespace), a name of
\* one or two segments, and nothing, a tag, a colon alone or two colons
RefSchemes == {"", "http://", "https://"}
RefHosts == {"", "gcr.io/", "localhost:5000/", "docker.io/", "bitnami/"}
RefNames == {"alpine", "my/image"}
RefTags == {"", ":tag", ":", ":a:b"}

\* the references of the docstring and of tests/test_url_parser.py, and
\* texts with slashes at the ends
RefExamples ==
  {"index.docker.io/library/nginx", "gcr.io/distroless/cc:1.2.3",
   "localhost:5000/my/awesome/image:tag", "http://registry:5000/my/repository/",
   "bitnami/postgresql", "/alpine", "alpine/", "gcr.io//cc/"}

Texts ==
  {s \o h \o n \o g : s \in RefSchemes, h \in RefHosts, n \in RefNames, g \in RefTags}
  \cup RefExamples

\* the program is started with a reference on its command line
InitReference ==
  /\ token = None
  /\ tokenCache = <<>>
  /\ tokenLog = <<>>
  /\ credentials = None
  /\ manifestCache = <<>>
  /\ configCache = <<>>
  /\ layerCache = <<>>
  /\ \E text \in Texts :
       frame = [t \in Tasks |-> IF t = 1 THEN [IdleFrame EXCEPT !.url = text] ELSE IdleFrame]
  /\ calls = 0
  /\ cwd = StartDir

\* ri = RegistryInfo.from_url(args.url) (cmd.py lines 13, 18)
CallFromUrl(t) ==
  /\ frame[t].pc = "idle" /\ frame[t].op = "idle"
  /\ LET r == from_url(frame[t].url)
         f == [frame[t] EXCEPT !.op = "from_url"]
     IN frame' = [frame EXCEPT ![t] =
          IF r.error # None THEN Raise(f, r.error)
          ELSE [f EXCEPT !.pc = "parsed", !.info = r.ri]]
  /\ UNCHANGED <<token, tokenCache, tokenLog, credentials, manifestCache, configCache,
                 layerCache, calls>>
  /\ cwd' = Chdir

\* the session builds its URLs from the reference (RegistryInfo.manifest_url,
\* blobs_url)
BuildUrls(t) ==
  /\ frame[t].pc = "parsed"
  /\ frame' = [frame EXCEPT ![t] =
       Return([frame[t] EXCEPT !.urls = <<manifest_url_of(frame[t].info),
                                           blobs_url_of(frame[t].info)>>],
              "none", NoResponse, "")]
  /\ UNCHANGED <<token, tokenCache, tokenLog, credentials, manifestCache, configCache,
                 layerCache, calls>>
  /\ cwd' = Chdir

NextReference ==
  \E t \in {1} :
    \/ CallFromUrl(t)
    \/ BuildUrls(t)

SpecReference == InitReference /\ [][NextReference]_vars

\* the files of the pushes below: an image of two layers, and one of one
\* layer whose manifest.json has its keys in lower case
UploadFiles ==
  {[kind |-> "tar", members |-> ArchiveFiles \cup {<<"manifest.json", "manifest.json">>},
    manifest_json |-> <<e>>] :
     e \in {[Config |-> "c1.json", RepoTags |-> <<>>,
             Layers |-> <<"l1/layer.tar", "l2/layer.tar">>],
            [config |-> "c2.json", layers |-> <<"l2/layer.tar">>]}}

\* the spellings a registry gives to the names of its response headers
AuthenticateNames == {"WWW-Authenticate", "www-authenticate", "Www-Authenticate"}
LocationNames == {"Location", "location"}
DigestNames == {"Docker-Content-Digest", "docker-content-digest", "Docker-content-digest"}

\* the digest of the manifest, as the registry answers it
ImageDigest == compute_sha256("ab")

\* the answers of a registry that asks for a token: to the HEAD of a blob and
\* to the GET that repeats it, to the upload POST, to the commit PUT and to
\* the manifest PUT
UploadHeadResponses ==
  {Response(200, "", {}), Response(404, "", {})}
  \cup {Response(401, "", {<<n, PullChallenge>>}) : n \in AuthenticateNames}

UploadPostResponses ==
  {Response(202, "", {<<n, UploadLocation>>}) : n \in LocationNames} \cup {Challenged}

UploadPutResponses == {Response(201, "", {}), Response(400, "", {}), Challenged}

UploadManifestResponses ==
  {Response(201, "", {<<n, ImageDigest>>}) : n \in DigestNames}
  \cup {Response(201, "", {}), Response(400, ErrorBody, {}), Challenged}

\* one task pushing archives to a registry that may ask for a token at every
\* request
NextUpload ==
  \E t \in {1} :
    \/ \E input_file \in UploadFiles : CallPush(t, input_file)
    \/ \E r \in UploadHeadResponses : HeadResponse1(t, r)
    \/ \E r \in {[status |-> 200, json |-> {<<"token", "t1">>}],
                  [status |-> 401, json |-> {}]} : TokenResponse(t, r)
    \/ \E r \in {Response(200, "", {}), Response(404, "", {}), Challenged} :
         HeadResponse2(t, r)
    \/ \E r \in UploadPostResponses : PostResponse(t, r)
    \/ \E r \in UploadPutResponses : PutResponse(t, r)
    \/ \E r \in UploadManifestResponses : ManifestPutResponse(t, r)

SpecUpload == InitImage /\ [][NextUpload]_vars

\* where a registry redirects a blob GET to
RedirectLocation == "https://cdn.io/blob?sig=1"

\* the headers get is called with: none, without and with Authorization
RequestHeaders ==
  {{}, {<<"Accept", _schema2_mimetype>>},
   {<<"Authorization", "Bearer t1">>, <<"Accept", _schema2_mimetype>>}}

\* the answers of a registry to the GETs of docker_pull: the content, a
\* redirect with and without its Location, a challenge with the header name
\* in two spellings, a 401 without one, an error, none
PullResponses ==
  {Response(200, "ab", {<<"Content-Type", "application/octet-stream">>}),
   Response(404, ErrorBody, {}), Response(401, ErrorBody, {}), NoResponse}
  \cup {Response(s, "", {<<"Location", RedirectLocation>>}) : s \in {301, 307}}
  \cup {Response(307, "", {})}
  \cup {Response(401, ErrorBody, {<<n, PullChallenge>>}) :
          n \in {"WWW-Authenticate", "Www-Authenticate"}}

\* one process calling get and pull of docker_pull
NextDockerPull ==
  \E t \in {1} :
    \/ \E h \in RequestHeaders : CallGet(t, blobs_url \o "/" \o compute_sha256("ab"), h)
    \/ \E tok \in {None, "t1"} : CallDockerPull(t, manifest_url, tok)
    \/ \E r \in PullResponses : GetResponse1(t, r)
    \/ \E r \in PullResponses : GetResponse2(t, r)
    \/ \E r \in {[status |-> 200, json |-> {<<"token", "t1">>}],
                  [status |-> 200, json |-> {<<"token", "t2">>}],
                  [status |-> 401, json |-> {}]} : PullTokenResponse(t, r)

SpecDockerPull == InitImage /\ [][NextDockerPull]_vars

---------------------------------------------------------------------------
(* Properties of get_manifest and of the token negotiation (Spec) *)

\* the indices of the manifest GETs among the requests of a call
ManifestGets(f) ==
  {i \in 1..Len(f.reqs) : f.reqs[i].method = "get" /\ f.reqs[i].url = manifest_url}

Answered(f, i) == i <= Len(f.resps)

\* C1: a get_manifest call issues at most two manifest GETs and negotiates at
\* most once.  A first answer of 401 with a bearer challenge is followed by
\* one negotiation; when it yields a token, the token is stored on the
\* session and the GET is issued once more with it; a second 401 ends the
\* call with the authentication error.
C1_ManifestRetryOnce ==
  \A t \in Tasks :
    LET f == frame[t]
    IN f.op \in {"get_manifest", "get_config"} =>
         /\ ManifestGets(f) \subseteq {1, 2}
         /\ f.negs <= 1
         /\ Len(tokenLog) - f.log0 <= 1
         /\ 2 \in ManifestGets(f) =>
              /\ f.resps[1].status = 401
              /\ f.negs = 1
              /\ f.key \in DOMAIN tokenCache
              /\ token = tokenCache[f.key]
              /\ f.reqs[2] = ManifestRequest(f.fat, token)
              /\ BearerOf(f.reqs[2]) = token
         /\ ( /\ 1 \in ManifestGets(f) /\ Answered(f, 1) /\ f.resps[1].status = 401
              /\ HasHeader(f.resps[1].headers, "WWW-Authenticate")
              /\ StartsWith(Header(f.resps[1].headers, "WWW-Authenticate"),
                            "Bearer realm=\"") ) =>
              /\ f.negs = 1
              /\ \/ f.pc = "tok_wait"
                 \/ f.tok_resp # NoTokenResponse /\ ~get_token_result(f.tok_resp).ok
                      /\ f.outcome = "raised"
                 \/ 2 \in ManifestGets(f)
         /\ (2 \in ManifestGets(f) /\ Answered(f, 2) /\ f.resps[2].status = 401) =>
              f.outcome = "raised" /\ f.error = "ValueError"

\* a get_manifest call whose second GET was answered 401
C1_Witness ==
  \E t \in Tasks :
    /\ frame[t].op = "get_manifest" /\ Len(frame[t].resps) = 2
    /\ frame[t].resps[2].status = 401 /\ frame[t].error = "ValueError"
    /\ BearerOf(frame[t].reqs[1]) # BearerOf(frame[t].reqs[2])

\* C7: a manifest answer whose status is neither 200 nor 401 ends get_manifest
\* with an error: it is neither returned nor memoized.
C7_ManifestOnly200 ==
  /\ \A t \in Tasks :
       (frame[t].op = "get_manifest" /\ frame[t].outcome = "returned")
         => frame[t].ret.status = 200
  /\ \A fat \in DOMAIN manifestCache : manifestCache[fat].status = 200

\* what the Authorization header of a token request must be, given the
\* credentials of its key
ExpectedTokenHeaders(key) ==
  IF Truthy(key[2]) /\ Truthy(key[3])
  THEN {<<"Authorization", "Basic " \o b64encode(encode(key[2] \o ":" \o key[3]))>>}
  ELSE IF Truthy(key[4]) THEN {<<"Authorization", "Basic " \o key[4]>>}
  ELSE {}

\* C8: every token request carries Basic base64(username:password) of the
\* username and password supplied, else Basic <stored credential>, else no
\* Authorization header.
C8_TokenRequestCredentials ==
  \A i \in 1..Len(tokenLog) : tokenLog[i].headers = ExpectedTokenHeaders(tokenLog[i].key)

\* C9: get_token yields the body's token field when present, else its
\* access_token field, and the session token and the memo hold it; with
\* neither field (or an error status) the call fails, no second token request
\* and no registry request follows, and the session token is as before.
C9_TokenResult ==
  \A t \in Tasks :
    LET f == frame[t]
        j == f.tok_resp.json
    IN f.tok_resp # NoTokenResponse =>
         IF f.tok_resp.status = 200 /\ (HasHeader(j, "token") \/ HasHeader(j, "access_token"))
         THEN LET tok == IF HasHeader(j, "token") THEN Header(j, "token")
                         ELSE Header(j, "access_token")
              IN /\ token = tok
                 /\ f.key \in DOMAIN tokenCache /\ tokenCache[f.key] = tok
                 /\ f.op = "login" => (f.outcome = "returned" /\ f.ret_data = tok)
         ELSE /\ f.outcome = "raised"
              /\ f.error \in {"ValueError", "HTTPError"}
              /\ token = f.token0
              /\ f.key \notin DOMAIN tokenCache
              /\ Len(tokenLog) - f.log0 = 1
              /\ Len(f.reqs) = 1

\* a negotiation that failed for want of a token field, on a session that
\* held a token
C9_Witness ==
  \E t \in Tasks :
    /\ frame[t].tok_resp = [status |-> 200, json |-> {}]
    /\ frame[t].token0 \in Tokens
    /\ frame[t].outcome = "raised"

---------------------------------------------------------------------------
(* Properties of the blob transfers (SpecPull, SpecPush) *)

\* the indices of the blob GETs among the requests of a call
BlobGets(f) ==
  {i \in 1..Len(f.reqs) :
     f.reqs[i].method = "get" /\ StartsWith(f.reqs[i].url, blobs_url \o "/")}

\* C2: a blob GET of get_config or pull_layer that is answered 401 is followed
\* by a negotiation and one retry; the call never returns with a 401 answer
\* as the blob.
C2_Blob401Retried ==
  \A t \in Tasks :
    LET f == frame[t]
    IN f.op \in {"get_config", "pull_layer"} =>
         \A i \in BlobGets(f) :
           (Answered(f, i) /\ f.resps[i].status = 401) =>
             /\ f.outcome = "returned" =>
                  \E j \in BlobGets(f) : j > i /\ Answered(f, j) /\ f.resps[j].status # 401
             /\ f.negs >= 1

\* C3: the cache gets an entry for a digest only in the step in which a
\* pull_layer of that digest ends successfully after a blob GET answered 200.
C3_CacheOnlyAfter200 ==
  [][\A d \in Digests :
       (d \notin DOMAIN layerCache /\ d \in DOMAIN layerCache') =>
         \E t \in Tasks :
           /\ frame'[t].op = "pull_layer" /\ frame'[t].layer = d
           /\ frame'[t].outcome = "returned"
           /\ frame'[t].resps # <<>>
           /\ frame'[t].resps[Len(frame'[t].resps)].status = 200]_vars

\* C4: what pull_layer returns for the digest d, and what the cache holds
\* under d, hashes to d.
C4_DigestIntegrity ==
  /\ \A t \in Tasks :
       (frame[t].op = "pull_layer" /\ frame[t].outcome = "returned"
          /\ frame[t].ret_kind = "bytes")
         => compute_sha256(frame[t].ret_data) = frame[t].layer
  /\ \A d \in DOMAIN layerCache : compute_sha256(layerCache[d]) = d

\* the answer to the existence check of push_layer: the first answer, or the
\* answer to the request repeated after a 401
CheckAnswer(f) ==
  IF Answered(f, 1) /\ f.resps[1].status # 401 THEN f.resps[1]
  ELSE IF Answered(f, 2) THEN f.resps[2]
  ELSE NoResponse

Uploads(f) == {i \in 1..Len(f.reqs) : f.reqs[i].method \in {"post", "put"}}

\* C5: when the existence check is answered 200, an unforced push_layer
\* issues no POST and no PUT and returns existing = true with the digest and
\* the size of the content; a forced one issues the upload POST, and returns
\* only with existing = false after the POST and the PUT.
C5_PushDedup ==
  \A t \in Tasks :
    LET f == frame[t]
    IN (f.op = "push_layer" /\ CheckAnswer(f).status = 200) =>
         IF ~f.force
         THEN /\ Uploads(f) = {}
              /\ f.outcome = "returned"
              /\ f.existing
              /\ f.digest = compute_sha256(f.content)
              /\ f.size = Len(f.content)
         ELSE /\ \E i \in Uploads(f) : f.reqs[i].method = "post"
              /\ ~f.existing
              /\ f.outcome = "returned" =>
                   /\ f.reqs[Len(f.reqs) - 1].method = "post"
                   /\ f.reqs[Len(f.reqs)].method = "put"
                   /\ f.reqs[Len(f.reqs)].data = f.content

\* an unforced push of a blob the registry holds
C5_Witness ==
  \E t \in Tasks :
    /\ frame[t].op = "push_layer" /\ ~frame[t].force
    /\ CheckAnswer(frame[t]).status = 200
    /\ frame[t].outcome = "returned" /\ frame[t].existing

\* C6: push_layer returns existing = false only after the PUT was answered
\* 201; a POST answered with a status outside 2xx or without Location ends
\* the call with an error and no PUT; a PUT answered other than 201 ends it
\* with an error.
C6_UploadErrors ==
  \A t \in Tasks :
    LET f == frame[t]
        n == Len(f.resps)
    IN f.op = "push_layer" =>
         /\ (f.outcome = "returned" /\ ~f.existing) =>
              (f.reqs[n].method = "put" /\ f.resps[n].status = 201)
         /\ \A i \in 1..n :
              /\ ( /\ f.reqs[i].method = "post"
                   /\ \/ f.resps[i].status \notin 200..299
                      \/ ~HasHeader(f.resps[i].headers, "Location") ) =>
                   (f.outcome = "raised" /\ \A k \in 1..Len(f.reqs) : f.reqs[k].method # "put")
              /\ (f.reqs[i].method = "put" /\ f.resps[i].status # 201) =>
                   f.outcome = "raised"

---------------------------------------------------------------------------
(* Properties of the token memo under concurrent callers (SpecToken) *)

SameKey(i, j) == tokenLog[i].key = tokenLog[j].key

---------------------------------------------------------------------------
(* Properties of the existence check of push_layer (SpecPush) *)

\* the token URL of a challenge whose scope grants pull, with push added to
\* the actions and every other part as in the challenge
UpgradedUrl(c) ==
  c.realm \o "?service=" \o c.service \o "&scope=repository:" \o c.name \o ":"
    \o (IF c.actions = "pull" THEN "pull,push" ELSE c.actions)

\* C11: when the existence check of push_layer is answered 401 with a bearer
\* challenge, the token URL negotiated is the challenge's URL with the
\* scope's action pull changed to pull,push and nothing else changed: realm,
\* service and repository name are kept also when they contain "pull", and a
\* scope that grants pull,push already is kept.
C11_PushScopeUpgrade ==
  \A t \in Tasks :
    LET f == frame[t]
    IN (f.op = "push_layer" /\ f.negs = 1 /\ f.key # <<>>) =>
         \A c \in ScopeChallenges :
           Header(f.resps[1].headers, "WWW-Authenticate") = ChallengeOf(c)
             => f.key[1] = UpgradedUrl(c)

\* C12: after the HEAD of push_layer is answered 401 the client negotiates
\* once and issues the same HEAD once more with the new token; a second 401
\* ends the call with the authentication error and without POST or PUT.
C12_PushHeadRetry ==
  \A t \in Tasks :
    LET f == frame[t]
    IN (f.op = "push_layer" /\ Answered(f, 1) /\ f.resps[1].status = 401) =>
         /\ f.negs <= 1
         /\ Len(f.reqs) >= 2 =>
              /\ f.negs = 1
              /\ f.reqs[2] = [f.reqs[1] EXCEPT !.headers = _headers(token)]
              /\ BearerOf(f.reqs[2]) = tokenCache[f.key]
         /\ (Answered(f, 2) /\ f.resps[2].status = 401) =>
              /\ f.outcome = "raised" /\ f.error = "ValueError"
              /\ Uploads(f) = {}

---------------------------------------------------------------------------
(* Properties of the blob cache (SpecPull) *)

---------------------------------------------------------------------------
(* Properties of the manifest resolution (SpecManifest) *)

\* the platform string of an entry: os/architecture, and /variant exactly
\* when the entry has a variant
PlatformString(e) ==
  Header(e.platform, "os") \o "/" \o Header(e.platform, "architecture")
    \o (IF HasHeader(e.platform, "variant") THEN "/" \o Header(e.platform, "variant")
        ELSE "")

\* C17: get_manifest_from_architecture(arch), arch given and the registry
\* answering with a manifest list, returns the first entry of the list whose
\* platform string equals arch character for character, and raises the
\* not-found error (ValueError) when no entry has that platform string.
C17_ArchitectureResolution ==
  \A t \in Tasks :
    LET f == frame[t]
        manifests == ManifestsOf(f.manifest.data)
        arch == ArchitectureValue(f.arch)
        hits == {i \in 1..Len(manifests) : PlatformString(manifests[i]) = arch}
    IN ( /\ f.op = "get_manifest_from_architecture" /\ f.arch # None
         /\ f.manifest.data \in ListBodies ) =>
         IF hits = {}
         THEN f.outcome = "raised" /\ f.error = "ValueError"
         ELSE /\ f.outcome = "returned"
              /\ \E i \in hits : f.ret_entry = manifests[i] /\ \A j \in hits : i <= j

\* linux/arm64 is asked for and the list holds linux/arm64/v8 before two
\* entries for linux/arm64: the first of the two is returned
C17_Witness ==
  \E t \in Tasks :
    /\ frame[t].op = "get_manifest_from_architecture" /\ frame[t].arch = "linux/arm64"
    /\ frame[t].manifest.data = "list2"
    /\ frame[t].outcome = "returned" /\ frame[t].ret_entry.digest = "sha256:03"

\* task t runs get_manifest(fat): its request is outstanding, or it is
\* negotiating between its two requests
Fetching(t, fat) ==
  frame[t].op \in ManifestOps /\ frame[t].pc \in ManifestPcs /\ frame[t].fat = fat

\* the step issues the first manifest GET of a call of task t
StartsFetch(t) ==
  /\ frame[t].pc \in {"idle", "done"}
  /\ frame'[t].pc = "gm_wait1"

---------------------------------------------------------------------------
(* Properties of pull and push (SpecImage) *)

\* the hexadecimal part of a digest sha256:<hex>
Hex(digest) == SubSeq(digest, Len("sha256:") + 1, Len(digest))

\* the archive has a regular member at the path
IsMember(archive, path) == \E m \in archive.members : m[1] = "./" \o path

MemberBytes(archive, path) == Header(archive.members, "./" \o path)

Intact(archive, manifest) ==
  LET layers == LayersOf(manifest.data)
      config == Hex(ConfigDigestOf(manifest.data)) \o ".json"
  IN /\ IsMember(archive, config)
     /\ compute_sha256(MemberBytes(archive, config)) = ConfigDigestOf(manifest.data)
     /\ \A i \in 1..Len(layers) :
          /\ IsMember(archive, Hex(layers[i]) \o "/layer.tar")
          /\ compute_sha256(MemberBytes(archive, Hex(layers[i]) \o "/layer.tar")) = layers[i]

C14_PullIdempotent ==
  \A t \in Tasks :
    LET f == frame[t]
    IN ( /\ f.op = "pull" /\ f.outcome = "returned"
         /\ f.archive0 # NoArchive /\ f.manifest = f.manifest0
         /\ f.config.data = MemberBytes(f.archive0, Hex(ConfigDigestOf(f.manifest.data))
                                                      \o ".json") ) =>
         /\ f.archive = f.archive0
         /\ BlobGets(f) = {}

---------------------------------------------------------------------------
(* Properties of concurrent callers (SpecLayers, SpecToken) *)

\* the blob GET of a pull_layer call is outstanding
FetchingLayer(t, d) ==
  /\ frame[t].op = "pull_layer" /\ frame[t].layer = d
  /\ frame[t].pc \in {"blob_wait", "stream_wait", "stream"}

\* C19: of the pull_layer calls that run together for one digest at most one
\* has a blob GET outstanding; the others issue none and wait for it.
C19_SingleFlight ==
  \A d \in Digests : \A t, u \in Tasks : (FetchingLayer(t, d) /\ FetchingLayer(u, d)) => t = u

\* the call of task t is a get_manifest whose first answer was the challenge
Refreshing(t) ==
  /\ frame[t].op = "get_manifest" /\ Answered(frame[t], 1)
  /\ frame[t].resps[1] = Challenged /\ frame[t].negs = 1

\* the tokens the token endpoint has handed out
Obtained == {tokenCache[k] : k \in DOMAIN tokenCache}

---------------------------------------------------------------------------
(* Properties of the archive push reads and of the directories pull and     *)
(* push work in (SpecArchive)                                               *)

\* the last element of the manifest.json of the file the push was given
LastElement(f) == f.archive.manifest_json[Len(f.archive.manifest_json)]

\* the file has a manifest.json whose last element names layers and a config
\* that is in the tar
WellFormed(f) ==
  /\ f.archive.kind = "tar"
  /\ \E m \in f.archive.members : ExtractedPath(m[1]) = "manifest.json"
  /\ f.archive.manifest_json # <<>>
  /\ HasKey(LastElement(f), "Config", "config")
  /\ HasKey(LastElement(f), "Layers", "layers")
  /\ \E m \in f.archive.members :
       ExtractedPath(m[1]) = Lookup(LastElement(f), "Config", "config")

\* the digest of the bytes the file holds at a path
DigestAt(f, path) ==
  compute_sha256(Header({<<ExtractedPath(m[1]), m[2]>> : m \in f.archive.members}, path))

\* the i-th blob the push has dealt with: the blobs are the targets of its
\* HEAD requests, in order
HeadUrls(f) ==
  LET idx == {i \in 1..Len(f.reqs) : f.reqs[i].method = "head"}
      Nth[n \in 1..Cardinality(idx)] ==
        CHOOSE i \in idx : Cardinality({j \in idx : j < i}) = n - 1
  IN [n \in 1..Cardinality(idx) |-> f.reqs[Nth[n]].url]

\* C21: the first blob push uploads is the file named by `Config` (or, when
\* that key is absent, `config`) of the last element of manifest.json, and
\* the blobs after it are the files named by `Layers` (or, when absent,
\* `layers`) of that element, in order, whatever the elements before hold.
C21_UnpackLastElement ==
  \A t \in Tasks :
    LET f == frame[t]
        last == LastElement(f)
        config == IF "Config" \in DOMAIN last THEN last.Config ELSE last.config
        layers == IF "Layers" \in DOMAIN last THEN last.Layers ELSE last.layers
        heads == HeadUrls(f)
    IN (f.op = "push" /\ WellFormed(f)) =>
         /\ Len(heads) >= 1 /\ Len(heads) <= 1 + Len(layers)
         /\ heads[1] = blobs_url \o "/" \o DigestAt(f, config)
         /\ \A i \in 2..Len(heads) :
              heads[i] = blobs_url \o "/" \o DigestAt(f, layers[i - 1])
         /\ f.pc = "manifest_wait" =>
              /\ Len(heads) = 1 + Len(layers)
              /\ f.image_manifest.config.digest = DigestAt(f, config)
              /\ Len(f.image_manifest.layers) = Len(layers)
              /\ \A i \in 1..Len(layers) :
                   f.image_manifest.layers[i].digest = DigestAt(f, layers[i])

\* a push of a manifest.json of two elements that differ, the last with the
\* lower-case keys only, has come to the PUT of the manifest
C21_Witness ==
  \E t \in Tasks :
    /\ frame[t].op = "push" /\ frame[t].pc = "manifest_wait"
    /\ Len(frame[t].archive.manifest_json) = 2
    /\ "Config" \in DOMAIN frame[t].archive.manifest_json[1]
    /\ DOMAIN LastElement(frame[t]) = {"config", "layers"}
    /\ Len(frame[t].image_manifest.layers) = 2

\* the file is not a tar, or a tar without manifest.json, or its
\* manifest.json is not a non-empty array whose last element holds the keys
Malformed(f) ==
  \/ f.archive.kind = "other"
  \/ /\ f.archive.kind = "tar"
     /\ \/ ~\E m \in f.archive.members : ExtractedPath(m[1]) = "manifest.json"
        \/ f.archive.manifest_json = <<>>
        \/ ~HasKey(LastElement(f), "Config", "config")
        \/ ~HasKey(LastElement(f), "Layers", "layers")

\* C22: a push of a malformed file ends with the error push raises for a
\* file that is no archive (ValueError) and has sent no request.
C22_MalformedArchive ==
  \A t \in Tasks :
    (frame[t].op = "push" /\ Malformed(frame[t])) =>
      /\ frame[t].outcome = "raised" /\ frame[t].error = "ValueError"
      /\ frame[t].reqs = <<>>

FetchedSuccessfully(f) ==
  /\ f.manifest.status = 200 /\ f.config.status = 200
  /\ \A i \in 1..Len(f.resps) : f.resps[i].status = 200

\* C24: a pull writes its output only when the manifest, the config and
\* every layer were fetched successfully; a pull that got another answer, or
\* none, raises, and a pull that raises has written nothing.
C24_NoPartialArchive ==
  \A t \in Tasks :
    LET f == frame[t]
    IN f.op = "pull" =>
         /\ f.archive # NoArchive => FetchedSuccessfully(f)
         /\ (\E i \in 1..Len(f.resps) : f.resps[i].status # 200) =>
              (f.outcome = "raised" /\ f.archive = NoArchive)
         /\ f.outcome = "raised" => f.archive = NoArchive

---------------------------------------------------------------------------
(* Properties of get_url_from_auth_header (SpecChallenge) *)

\* the WWW-Authenticate header of the first answer of the call
ChallengeGot(f) == Header(f.resps[1].headers, "WWW-Authenticate")

\* C25: a call challenged with `Bearer realm="R",service="S",scope="P"` asks
\* for its token at exactly `R?service=S&scope=P`, whatever R begins with; a
\* call challenged with a header that does not begin with `Bearer realm="`
\* fails and sends no token request.
C25_ChallengeParsing ==
  \A t \in Tasks :
    LET f == frame[t]
    IN (f.op = "get_manifest" /\ Answered(f, 1) /\ f.resps[1].status = 401) =>
         /\ \A R \in Realms, S \in Services, P \in Scopes :
              ChallengeGot(f) = BearerChallenge(R, S, P) =>
                /\ f.key # <<>>
                /\ f.key[1] = R \o "?service=" \o S \o "&scope=" \o P
                /\ f.log_idx > 0 => tokenLog[f.log_idx].url = f.key[1]
         /\ ChallengeGot(f) \in OtherChallenges =>
              /\ f.outcome = "raised" /\ f.error = "AssertionError"
              /\ Len(tokenLog) = f.log0

---------------------------------------------------------------------------
(* Properties of RegistryInfo.from_url (SpecReference) *)

\* the scheme a text names ("" when it names none) and the text after it
SchemeOf(text) == IF contains(text, "://") THEN SubSeq(text, 1, find(text, "://") - 1) ELSE ""

AfterScheme(text) ==
  IF contains(text, "://") THEN SubSeq(text, find(text, "://") + 3, Len(text)) ELSE text

FirstSegment(u) == SubSeq(u, 1, IF contains(u, "/") THEN find(u, "/") - 1 ELSE Len(u))

AfterFirstSlash(u) == SubSeq(u, find(u, "/") + 1, Len(u))

\* the position of the last colon of s, 0 when it has none
LastColon(s) ==
  IF contains(s, ":")
  THEN CHOOSE k \in 1..Len(s) :
         CharAt(s, k) = ":" /\ \A j \in (k + 1)..Len(s) : CharAt(s, j) # ":"
  ELSE 0

\* no slash, or one slash after a first segment without `.` and `:`
Shorthand(u) ==
  \/ ~contains(u, "/")
  \/ /\ ~contains(AfterFirstSlash(u), "/")
     /\ ~contains(FirstSegment(u), ".") /\ ~contains(FirstSegment(u), ":")

\* the call of task t has parsed its text into a reference
Parsed(t) == frame[t].op = "from_url" /\ frame[t].pc \in {"parsed", "done"}
               /\ frame[t].outcome # "raised"

\* C26: a text that, after any scheme, has no slash, or one slash after a
\* first segment without `.` and `:`, is parsed; the registry is
\* index.docker.io and the repository is the text up to its tag, with
\* library/ before it exactly when the text has no slash.
C26_HubShorthand ==
  \A t \in Tasks :
    LET u == AfterScheme(frame[t].url)
    IN (frame[t].op = "from_url" /\ Shorthand(u)) =>
         /\ Parsed(t)
         /\ frame[t].info.registry = "index.docker.io"
         /\ frame[t].info.repository =
              (IF contains(u, "/") THEN "" ELSE "library/")
                \o strip(SubSeq(u, 1, IF contains(u, ":") THEN find(u, ":") - 1 ELSE Len(u)), "/")

\* C27: a text with a slash whose first segment contains `.` or `:` is
\* parsed; the registry is the text before the first slash, and the rest,
\* split at its last colon, gives the repository and the tag, the tag being
\* latest when the rest has no colon.  (A rest of one segment at a registry
\* that contains docker.io is the library rule's and is left out here;
\* slashes at the ends of the repository do not count.)
C27_RegistryTagSplit ==
  \A t \in Tasks :
    LET u == AfterScheme(frame[t].url)
        rest == AfterFirstSlash(u)
        k == LastColon(rest)
    IN (/\ frame[t].op = "from_url" /\ contains(u, "/")
        /\ contains(FirstSegment(u), ".") \/ contains(FirstSegment(u), ":")
        /\ ~(contains(FirstSegment(u), "docker.io") /\ ~contains(rest, "/"))) =>
         /\ Parsed(t)
         /\ frame[t].info.registry = FirstSegment(u)
         /\ frame[t].info.repository =
              strip(IF k = 0 THEN rest ELSE SubSeq(rest, 1, k - 1), "/")
         /\ frame[t].info.tag =
              (IF k = 0 THEN "latest" ELSE SubSeq(rest, k + 1, Len(rest)))

\* C28: from_url raises for no text; a text with a scheme and no slash is
\* parsed as Docker-Hub shorthand, with the scheme it names.
C28_ParseTotal ==
  \A t \in Tasks :
    frame[t].op = "from_url" =>
      /\ frame[t].outcome # "raised"
      /\ (SchemeOf(frame[t].url) # "" /\ ~contains(AfterScheme(frame[t].url), "/")) =>
           /\ frame[t].info.registry = "index.docker.io"
           /\ frame[t].info.https = (SchemeOf(frame[t].url) = "https")

\* the last segment of the text names no tag
NamesNoTag(u) ==
  LET segments == split(u, "/")
  IN ~contains(segments[Len(segments)], ":")

\* C29: the repository of a reference from_url returns neither starts nor
\* ends with a slash, its tag is not empty, and is latest when the text names
\* no tag; https is true exactly when the text has no scheme or the scheme
\* https, and the two URLs begin with http:// exactly when https is false.
C29_ReferenceInvariant ==
  \A t \in Tasks :
    LET ri == frame[t].info
    IN Parsed(t) =>
         /\ ~StartsWith(ri.repository, "/")
         /\ rstrip(ri.repository, "/") = ri.repository
         /\ ri.tag # ""
         /\ NamesNoTag(AfterScheme(frame[t].url)) => ri.tag = "latest"
         /\ ri.https = (SchemeOf(frame[t].url) \in {"", "https"})
         /\ \A i \in 1..Len(frame[t].urls) :
              /\ StartsWith(frame[t].urls[i], "http://") = ~ri.https
              /\ StartsWith(frame[t].urls[i], "https://") = ri.https

\* the call of task t is a pull_layer that has fetched the blob from the
\* registry (status 200) and has returned
Fetched(t) ==
  /\ frame[t].op = "pull_layer" /\ frame[t].outcome = "returned"
  /\ frame[t].resps # <<>>
  /\ frame[t].resps[Len(frame[t].resps)].status = 200

\* the body of the registry's answer: what the buffered form returns
BodyOf(t) == frame[t].resps[Len(frame[t].resps)].data

\* C30: for the same digest and the same answer of the registry, the
\* buffered pull_layer returns the body, the streaming pull_layer appends
\* exactly the body to its destination, and the bytes cached for the digest
\* are the body in both forms, whatever the destination held before the call.
C30_StreamingEqualsBuffered ==
  \A t \in Tasks :
    Fetched(t) =>
      /\ ~frame[t].file_obj0.given => frame[t].ret_data = BodyOf(t)
      /\ (frame[t].file_obj0.given /\ frame[t].file_obj0.pos = Len(frame[t].file_obj0.buf)) =>
           frame[t].file_obj.buf = frame[t].file_obj0.buf \o BodyOf(t)
      /\ frame[t].use_cache =>
           /\ frame[t].layer \in DOMAIN layerCache
           /\ layerCache[frame[t].layer] = BodyOf(t)

\* the mapping holds the header, its name in any letter case
HasHeaderAnyCase(headers, name) == \E h \in headers : str_lower(h[1]) = str_lower(name)

\* the header a push looks up in the answer to its last request
WantedHeader(f) ==
  LET n == Len(f.resps)
  IN IF f.reqs[n].method = "head" /\ f.resps[n].status = 401 THEN "WWW-Authenticate"
     ELSE IF f.reqs[n].method = "post" THEN "Location"
     ELSE ""

\* C31: every lookup of a response header finds the header whatever the
\* letter case of its name: a push does not end with KeyError when the
\* answer holds WWW-Authenticate (after a 401) or Location (after the upload
\* POST) in some letter case, and after a manifest PUT answered 201 the
\* digest push hands on is the value of Docker-Content-Digest in whatever
\* case it came.
C31_HeaderAnyCase ==
  \A t \in Tasks :
    LET f == frame[t]
    IN (f.op = "push" /\ f.pc = "done" /\ f.resps # <<>> /\ Len(f.resps) = Len(f.reqs)) =>
         /\ (f.outcome = "raised" /\ f.error = "KeyError") =>
              ~HasHeaderAnyCase(f.resps[Len(f.resps)].headers, WantedHeader(f))
         /\ f.outcome = "returned" =>
              \A h \in f.resps[Len(f.resps)].headers :
                str_lower(h[1]) = "docker-content-digest" => f.image_digest = h[2]

\* the file paths of the blobs of the archive of a push: the config, then
\* the layers in the order of manifest.json
BlobPaths(f) ==
  <<Lookup(LastElement(f), "Config", "config")>> \o Lookup(LastElement(f), "Layers", "layers")

\* the indices of the manifest PUTs among the requests of a call
ManifestPuts(f) ==
  {i \in 1..Len(f.reqs) : f.reqs[i].method = "put" /\ f.reqs[i].url = manifest_url}

\* the i-th request has confirmed the blob of digest d: the registry said it
\* exists (200 to the HEAD, or to the GET that repeats it), or its commit
\* PUT was answered 201
Confirms(f, i, d) ==
  /\ i <= Len(f.resps)
  /\ \/ /\ f.reqs[i].method \in {"head", "get"}
        /\ f.reqs[i].url = blobs_url \o "/" \o d
        /\ f.resps[i].status = 200
     \/ /\ f.reqs[i].method = "put"
        /\ f.reqs[i].url = UploadLocation \o "&digest=" \o d
        /\ f.resps[i].status = 201

\* the requests from the i-th to the one before the k-th confirm the blobs
\* of the archive from the n-th on, in order
RECURSIVE ConfirmedFrom(_, _, _, _)
ConfirmedFrom(f, i, n, k) ==
  IF n > Len(BlobPaths(f)) THEN TRUE
  ELSE IF i >= k THEN FALSE
  ELSE IF Confirms(f, i, DigestAt(f, BlobPaths(f)[n])) THEN ConfirmedFrom(f, i + 1, n + 1, k)
  ELSE ConfirmedFrom(f, i + 1, n, k)

\* the requests before the k-th confirm the blobs of the archive, in order
BlobsConfirmedBefore(f, k) == ConfirmedFrom(f, 1, 1, k)

\* C33: push issues the manifest PUT only after the config blob and then
\* every layer blob, in archive order, was confirmed existing or uploaded
\* with a 201; a push that fails at a blob issues no manifest PUT, and a
\* manifest PUT answered with another status than 201 makes push fail.
C33_PushOrdering ==
  \A t \in Tasks :
    LET f == frame[t]
    IN (f.op = "push" /\ WellFormed(f)) =>
         /\ \A k \in ManifestPuts(f) :
              /\ k = Len(f.reqs)
              /\ BlobsConfirmedBefore(f, k)
              /\ (k <= Len(f.resps) /\ f.resps[k].status # 201) => f.outcome = "raised"
         /\ (f.outcome = "raised" /\ ~BlobsConfirmedBefore(f, Len(f.reqs) + 1)) =>
              ManifestPuts(f) = {}

\* a push of a config and two layers has returned: one blob existed, one
\* was uploaded, and the manifest PUT came last
C33_Witness ==
  \E t \in Tasks :
    LET f == frame[t]
    IN /\ f.op = "push" /\ f.outcome = "returned"
       /\ Len(BlobPaths(f)) = 3
       /\ ManifestPuts(f) = {Len(f.reqs)}
       /\ \E i, j \in 1..Len(f.reqs) :
            f.reqs[i].method = "head" /\ f.resps[i].status = 200
              /\ f.reqs[j].method = "put" /\ j < Len(f.reqs) /\ f.resps[j].status = 201

\* the i-th request of the call repeats the one before it
Repeats(f, i) ==
  i > 1 /\ f.reqs[i].method = f.reqs[i - 1].method /\ f.reqs[i].url = f.reqs[i - 1].url

\* C34: a 401 to the upload POST, to the commit PUT or to the manifest PUT
\* starts one token negotiation and one retry of that request; a push ends
\* at such a 401 only when it answers the retry, and then with the
\* authentication error, and no request is sent a third time.
C34_PushPathRetry ==
  \A t \in Tasks :
    LET f == frame[t]
        n == Len(f.resps)
    IN (f.op = "push" /\ n >= 1) =>
         /\ (f.pc = "done" /\ f.reqs[n].method \in {"post", "put"} /\ f.resps[n].status = 401) =>
              /\ Repeats(f, n) /\ f.resps[n - 1].status = 401
              /\ f.negs >= 1
              /\ f.outcome = "raised" /\ f.error = "ValueError"
         /\ \A i \in 3..Len(f.reqs) : ~(Repeats(f, i) /\ Repeats(f, i - 1))

\* the i-th answer to a call of docker_pull is a redirect of its GET: a 301
\* or 307 that names a Location
Redirected(f, i) ==
  /\ i <= Len(f.resps)
  /\ f.resps[i].status \in {301, 307}
  /\ f.reqs[i].url = f.url
  /\ HasHeader(LowerKeys(f.resps[i].headers), "location")

\* C32: when a GET of docker_pull.get is answered 301 or 307, a request to
\* the Location follows that carries no Authorization header and every
\* other header of the first request, whether or not that one carried an
\* Authorization header, and the result get returns holds the status, the
\* response headers and the body of the answer to the follow-up.
C32_RedirectDropsAuthorization ==
  \A t \in Tasks :
    LET f == frame[t]
    IN f.op \in {"get", "docker_pull"} =>
         \A i \in 1..Len(f.resps) :
           Redirected(f, i) =>
             /\ Len(f.reqs) > i
             /\ f.reqs[i + 1].url = Header(LowerKeys(f.resps[i].headers), "location")
             /\ f.reqs[i + 1].headers = WithoutAuthorization(f.reqs[i].headers)
             /\ (f.op = "get" /\ f.outcome = "returned") =>
                  /\ f.ret.status = f.resps[i + 1].status
                  /\ f.ret.data = f.resps[i + 1].data
                  /\ f.ret.headers \in {f.resps[i + 1].headers,
                                        LowerKeys(f.resps[i + 1].headers)}

\* the GETs of the path among the requests of a docker_pull.pull
PathGets(f) == {i \in 1..Len(f.reqs) : f.reqs[i].url = f.url}

\* C36: docker_pull.pull sends at most two GETs of its path, and against a
\* registry that answers 401 to each of them it has ended, once the second
\* is answered, with an authentication error.
C36_BoundedRetry ==
  \A t \in Tasks :
    LET f == frame[t]
    IN f.op = "docker_pull" =>
         /\ Cardinality(PathGets(f)) <= 2
         /\ (Len(f.resps) >= 2 /\ \A i \in PathGets(f) : i <= Len(f.resps) => f.resps[i].status = 401) =>
              /\ f.outcome = "raised"
              /\ f.error \in {"ValueError", "AssertionError", "KeyError", "HTTPError"}

\* the pull was called for an architecture and the manifest list the
\* registry answered names an entry for it
Resolved(f) ==
  /\ f.op = "pull" /\ f.arch # None
  /\ f.manifest.status = 200 /\ f.manifest.data \in ListBodies
  /\ MatchingEntry(ManifestsOf(f.manifest.data), ArchitectureValue(f.arch)) # 0

\* the entry of the list for the architecture of the pull
ResolvedEntry(f) ==
  ManifestsOf(f.manifest.data)[MatchingEntry(ManifestsOf(f.manifest.data),
                                             ArchitectureValue(f.arch))]

\* C35: pull for an architecture A that the manifest list names packs the
\* config and the layers of the manifest resolved for A: it does not fail
\* once the entry is found, and an archive it returns was made from the
\* manifest the entry names, which it has requested by the entry's digest.
C35_PullArchitecture ==
  \A t \in Tasks :
    LET f == frame[t]
    IN (Resolved(f) /\ f.pc = "done") =>
         /\ f.outcome = "returned"
         /\ \E i \in 1..Len(f.reqs) :
              f.reqs[i].url = manifest_url_of(RegistryInfo(registry, repository,
                                                          ResolvedEntry(f).digest, https))

\* the first request of the call carried a bearer token and was answered
\* 401, and the call has negotiated and repeated the request
RetriedWithToken(f) ==
  /\ f.op = "get_manifest" /\ Len(f.reqs) >= 2
  /\ BearerOf(f.reqs[1]) # None
  /\ f.resps[1].status = 401

\* C37: when a request that carried the bearer token T was answered 401,
\* the request that repeats it carries the token of a token request the
\* call has sent after that 401, not a token taken from the memo of
\* get_token.
C37_RefreshedToken ==
  \A t \in Tasks :
    LET f == frame[t]
    IN RetriedWithToken(f) =>
         /\ f.log_idx > f.log0
         /\ BearerOf(f.reqs[2]) = get_token_result(f.tok_resp).token

\* the call of task u is a pull_layer that was served from the cache
FromCache(u) ==
  frame[u].op = "pull_layer" /\ frame[u].outcome = "returned" /\ frame[u].reqs = <<>>

\* the bytes of the blob the cache gave to the call of task u
CacheBytes(u) ==
  IF frame[u].file_obj0.given
  THEN SubSeq(frame[u].file_obj.buf, frame[u].file_obj0.pos + 1, frame[u].file_obj.pos)
  ELSE frame[u].ret_data

\* C38: a pull_layer served from the registry and one served from the
\* cache, for the same digest, the same bytes and the same destination
\* argument, return the same value (the bytes of the blob when no
\* destination is given) and leave the destination with the same contents
\* and the same position.
C38_CacheEqualsRemote ==
  \A t, u \in Tasks :
    (/\ Fetched(t) /\ FromCache(u)
     /\ frame[t].layer = frame[u].layer
     /\ frame[t].file_obj0 = frame[u].file_obj0
     /\ BodyOf(t) = CacheBytes(u)) =>
      /\ frame[t].ret_kind = frame[u].ret_kind
      /\ frame[t].ret_data = frame[u].ret_data
      /\ ~frame[t].file_obj0.given => frame[t].ret_data = BodyOf(t)
      /\ frame[t].file_obj.buf = frame[u].file_obj.buf
      /\ frame[t].file_obj.pos = frame[u].file_obj.pos

\* C39: every step of a pull, from its call to its end, by return or by an
\* exception, leaves the working directory of the process as it was, and
\* that directory exists.
C39_PullKeepsCwd ==
  [][\A t \in Tasks :
       (frame'[t].op = "pull" /\ frame'[t] # frame[t]) => (cwd' = cwd /\ cwd'.exists)]_vars

====
